---- MODULE Spec2Model ----
(***************************************************************************)
(* Model of the mail digest: the vacancy-listing parser and the hidden     *)
(* links of app/city_extract.py, the digest run of app/digest.py with the  *)
(* stored state of app/db.py and its callers in app/main.py and            *)
(* app/telegram_bot.py, and the fetch limit of app/config.py and           *)
(* app/telegram_jobs.py.                                                   *)
(*                                                                         *)
(* Strings are sequences of code points.  A code point is written as a     *)
(* token: the letters of both alphabets share one set of tokens, Cyrillic  *)
(* letters being written by their Latin transliteration (one token per     *)
(* code point, e.g. "ch" is the single letter che, "ya" the letter ya,     *)
(* "j" the soft sign, "yo"/"YO" the letter io that normalisation folds to  *)
(* "e"); "EM" is the em dash, "TAB" a tab, "NL" a line feed and "FIRE" a    *)
(* pictograph above U+FFFF.                                                *)
(***************************************************************************)
EXTENDS Integers, Sequences, FiniteSets, TLC

(***************************************************************************)
(* Code points and character classes                                       *)
(***************************************************************************)
UpperTokens == <<"A", "B", "G", "M", "P", "S", "V", "U", "SH", "YO", "H", "T", "W", "R", "Z">>
LowerTokens == <<"a", "b", "g", "m", "p", "s", "v", "u", "sh", "yo", "h", "t", "w", "r", "z">>

UpperSet == {UpperTokens[i] : i \in 1..Len(UpperTokens)}

LowerSet ==
    {LowerTokens[i] : i \in 1..Len(LowerTokens)}
        \cup {"c", "ch", "d", "e", "f", "i", "j", "k", "l", "n", "o", "y", "ya"}

Digits == {"0", "1", "2", "3", "4", "5", "6", "7", "8", "9"}

\* the lower-case form of every upper-case letter
LowerOf ==
    [c \in UpperSet |-> LowerTokens[CHOOSE i \in 1..Len(UpperTokens) : UpperTokens[i] = c]]

\* str.lower() on one code point
LowerChar(c) == IF c \in UpperSet THEN LowerOf[c] ELSE c

\* \s of the re module, and the characters str.strip() removes
IsSpace(c) == c \in {" ", "TAB", "NL"}

\* [A-Z] of both alphabets: first character of a city header
IsHeaderFirst(c) == c \in UpperSet

\* the class [letters of both alphabets, hyphen, space] of a city header
HeaderBodySet == UpperSet \cup LowerSet \cup {"-", " "}

IsHeaderBody(c) == c \in HeaderBodySet

(***************************************************************************)
(* String primitives of the Python runtime                                 *)
(***************************************************************************)
RECURSIVE LStrip(_)
LStrip(s) == IF s # <<>> /\ IsSpace(s[1]) THEN LStrip(Tail(s)) ELSE s

RECURSIVE RStrip(_)
RStrip(s) ==
    IF s # <<>> /\ IsSpace(s[Len(s)]) THEN RStrip(SubSeq(s, 1, Len(s) - 1)) ELSE s

\* str.strip()
Strip(s) == RStrip(LStrip(s))

\* str.lower()
Lower(s) == [i \in 1..Len(s) |-> LowerChar(s[i])]

\* str.replace("yo", "e")
FoldYo(s) == [i \in 1..Len(s) |-> IF s[i] = "yo" THEN "e" ELSE s[i]]

\* re.sub(r"\s+", " ", s): every run of whitespace becomes one space
RECURSIVE CollapseSpaces(_)
CollapseSpaces(s) ==
    IF s = <<>> THEN <<>>
    ELSE IF IsSpace(s[1])
         THEN <<" ">> \o CollapseSpaces(LStrip(s))
         ELSE <<s[1]>> \o CollapseSpaces(Tail(s))

\* needle in hay (Python substring test)
Contains(hay, needle) ==
    \E i \in 1..(Len(hay) - Len(needle) + 1) :
        SubSeq(hay, i, i + Len(needle) - 1) = needle

\* position of the first line feed of s at or after i, Len(s) + 1 for none
RECURSIVE NextBreak(_, _)
NextBreak(s, i) == IF i > Len(s) \/ s[i] = "NL" THEN i ELSE NextBreak(s, i + 1)

\* str.splitlines(): lines without their terminators, no last empty line
RECURSIVE SplitLines(_)
SplitLines(s) ==
    IF s = <<>> THEN <<>>
    ELSE LET i == NextBreak(s, 1)
         IN  <<SubSeq(s, 1, i - 1)>> \o SplitLines(SubSeq(s, i + 1, Len(s)))

\* "\n".join(lines)
RECURSIVE JoinLines(_)
JoinLines(ls) ==
    IF ls = <<>> THEN <<>>
    ELSE IF Len(ls) = 1 THEN ls[1]
         ELSE ls[1] \o <<"NL">> \o JoinLines(Tail(ls))

\* [f(x) for x in seq if keep(x)] with f = strip and keep = non-empty strip
RECURSIVE StrippedNonEmpty(_)
StrippedNonEmpty(ls) ==
    IF ls = <<>> THEN <<>>
    ELSE IF Strip(ls[1]) # <<>>
         THEN <<Strip(ls[1])>> \o StrippedNonEmpty(Tail(ls))
         ELSE StrippedNonEmpty(Tail(ls))

\* number of digits of s from position i on
RECURSIVE DigitRunAt(_, _)
DigitRunAt(s, i) ==
    IF i <= Len(s) /\ s[i] \in Digits THEN 1 + DigitRunAt(s, i + 1) ELSE 0

\* length of the longest prefix of s made of digits
DigitRun(s) == DigitRunAt(s, 1)

\* number of header-class characters of s from position i on
RECURSIVE HeaderBodyRunAt(_, _)
HeaderBodyRunAt(s, i) ==
    IF i <= Len(s) /\ IsHeaderBody(s[i]) THEN 1 + HeaderBodyRunAt(s, i + 1) ELSE 0

Drop(s, n) == SubSeq(s, n + 1, Len(s))

(***************************************************************************)
(* Constants of city_extract.py                                            *)
(***************************************************************************)
\* quantifier bound {1,60} of the two header patterns
HeaderBodyMax == 60

\* "sankt-peterburg", "sankt peterburg", "spb", "piter"
SPB_ALIASES ==
    { <<"s", "a", "n", "k", "t", "-", "p", "e", "t", "e", "r", "b", "u", "r", "g">>,
      <<"s", "a", "n", "k", "t", " ", "p", "e", "t", "e", "r", "b", "u", "r", "g">>,
      <<"s", "p", "b">>,
      <<"p", "i", "t", "e", "r">> }

\* "udalennaya rabota", "udalyonnaya rabota"
REMOTE_WORK_KEYWORDS ==
    { <<"u", "d", "a", "l", "e", "n", "n", "a", "ya", " ", "r", "a", "b", "o", "t", "a">>,
      <<"u", "d", "a", "l", "yo", "n", "n", "a", "ya", " ", "r", "a", "b", "o", "t", "a">> }

\* the default target_city of extract_city_block, "Sankt-Peterburg"
DefaultTargetCity ==
    <<"S", "a", "n", "k", "t", "-", "P", "e", "t", "e", "r", "b", "u", "r", "g">>

(***************************************************************************)
(* Normalisation                                                           *)
(***************************************************************************)
_normalize_city(city) == CollapseSpaces(FoldYo(Lower(Strip(city))))

_normalize_wording(text) == CollapseSpaces(FoldYo(Lower(Strip(text))))

(***************************************************************************)
(* City headers                                                            *)
(***************************************************************************)
\* \s*:?\s*$
PlainTail(r) ==
    LET t == LStrip(r)
    IN  t = <<>> \/ (t[1] = ":" /\ LStrip(Tail(t)) = <<>>)

\* \s*\(\d+\)\s*:?\s*$
CountTail(r) ==
    LET t == LStrip(r)
    IN  /\ t # <<>>
        /\ t[1] = "("
        /\ LET d == DigitRunAt(t, 2)
           IN  /\ d >= 1
               /\ Len(t) >= d + 2
               /\ t[d + 2] = ")"
               /\ PlainTail(Drop(t, d + 2))

\* lengths k of the {1,60} part with which the pattern matches raw, for the
\* pattern with a count (counted) and the plain one
HeaderSplits(raw, counted) ==
    IF raw = <<>> \/ ~IsHeaderFirst(raw[1]) THEN {}
    ELSE LET run == HeaderBodyRunAt(raw, 2)
             top == IF run < HeaderBodyMax THEN run ELSE HeaderBodyMax
         IN  {k \in 1..top : IF counted THEN CountTail(Drop(raw, 1 + k))
                                         ELSE PlainTail(Drop(raw, 1 + k))}

SetMax(S) == CHOOSE m \in S : \A x \in S : x <= m

\* group(1) of a greedy match
HeaderGroup(raw, counted) == SubSeq(raw, 1, 1 + SetMax(HeaderSplits(raw, counted)))

\* faulty variant: the pattern with a count is missing
MatchesCountHeader_Never(raw) == FALSE

\* CITY_HEADER_WITH_COUNT_RE.match(raw), CITY_HEADER_RE.match(raw)
MatchesCountHeader(raw) == HeaderSplits(raw, TRUE) # {}
MatchesPlainHeader(raw) == HeaderSplits(raw, FALSE) # {}

\* str.rstrip(":")
RECURSIVE RStripColon(_)
RStripColon(s) ==
    IF s # <<>> /\ s[Len(s)] = ":" THEN RStripColon(SubSeq(s, 1, Len(s) - 1)) ELSE s

_extract_city_from_header(line) ==
    LET raw == Strip(line)
    IN  IF MatchesCountHeader(raw) THEN _normalize_city(HeaderGroup(raw, TRUE))
        ELSE IF MatchesPlainHeader(raw) THEN _normalize_city(HeaderGroup(raw, FALSE))
        ELSE _normalize_city(RStripColon(raw))

_is_city_header_line(line) ==
    LET raw == Strip(line)
    IN  MatchesCountHeader(raw) \/ MatchesPlainHeader(raw)

(***************************************************************************)
(* extract_city_block                                                      *)
(***************************************************************************)
\* faulty variant: the target is not expanded to its aliases
TargetAliases_NoExpansion(target_city) == {_normalize_city(target_city)}

\* target_aliases of extract_city_block
TargetAliases(target_city) ==
    LET target == _normalize_city(target_city)
    IN  IF target \in SPB_ALIASES THEN {target} \cup SPB_ALIASES ELSE {target}

\* the lines that can open the section
IsStartLine(raw, target_aliases) ==
    LET line == Strip(raw)
    IN  /\ line # <<>>
        /\ _is_city_header_line(line)
        /\ _extract_city_from_header(line) \in target_aliases

\* faulty variant: every header closes the section
IsEndLine_AnyHeader(raw, target_aliases) ==
    Strip(raw) # <<>> /\ _is_city_header_line(Strip(raw))

\* the lines that close the section
IsEndLine(raw, target_aliases) ==
    LET line == Strip(raw)
    IN  /\ line # <<>>
        /\ _is_city_header_line(line)
        /\ _extract_city_from_header(line) \notin target_aliases

\* first loop, from line idx on: index of the first start line, 0 for None
RECURSIVE SectionStartFrom(_, _, _)
SectionStartFrom(lines, idx, target_aliases) ==
    IF idx > Len(lines) THEN 0
    ELSE IF IsStartLine(lines[idx], target_aliases) THEN idx
    ELSE SectionStartFrom(lines, idx + 1, target_aliases)

\* faulty variant: start is initialised to the first line instead of None
SectionStart_First(lines, target_aliases) ==
    IF SectionStartFrom(lines, 1, target_aliases) = 0 /\ lines # <<>>
    THEN 1
    ELSE SectionStartFrom(lines, 1, target_aliases)

SectionStart(lines, target_aliases) == SectionStartFrom(lines, 1, target_aliases)

\* second loop, from line idx on: index of the line that ends the section,
\* Len(lines) + 1 for a section that runs to the end of the input
RECURSIVE SectionEndFrom(_, _, _)
SectionEndFrom(lines, idx, target_aliases) ==
    IF idx > Len(lines) THEN Len(lines) + 1
    ELSE IF IsEndLine(lines[idx], target_aliases) THEN idx
    ELSE SectionEndFrom(lines, idx + 1, target_aliases)

\* faulty variant: the second loop never breaks
SectionEnd_NoBreak(lines, start, target_aliases) == Len(lines) + 1

SectionEnd(lines, start, target_aliases) ==
    SectionEndFrom(lines, start + 1, target_aliases)

extract_city_block(text, target_city) ==
    LET lines == SplitLines(text)
        target_aliases == TargetAliases(target_city)
        start == SectionStart(lines, target_aliases)
    IN  IF start = 0 THEN <<>>
        ELSE Strip(JoinLines(SubSeq(lines, start,
                                    SectionEnd(lines, start, target_aliases) - 1)))

(***************************************************************************)
(* Entry lines, link lines, keyword tests                                  *)
(***************************************************************************)
\* re.match(r"^\d+\.\s+", line)
IsNumberedLine(line) ==
    LET d == DigitRun(line)
    IN  d >= 1 /\ Len(line) >= d + 2 /\ line[d + 1] = "." /\ IsSpace(line[d + 2])

\* re.sub(r"^\d+\.\s+", "", line) on a numbered line
RawTitle(line) == LStrip(Drop(line, DigitRun(line) + 1))

\* s[i:].startswith(p)
HasPrefixAt(s, i, p) ==
    i >= 1 /\ i + Len(p) - 1 <= Len(s) /\ SubSeq(s, i, i + Len(p) - 1) = p

\* the separator " EM " between the title and the rest of the line
TitleSeparator == <<" ", "EM", " ">>

\* raw_title.split(separator)[0].strip()
TitleOf(raw_title) ==
    LET P == {i \in 1..Len(raw_title) : HasPrefixAt(raw_title, i, TitleSeparator)}
    IN  IF P = {} THEN Strip(raw_title)
        ELSE Strip(SubSeq(raw_title, 1, (CHOOSE i \in P : \A j \in P : i <= j) - 1))


\* length of the match of VACANCY_LINK_RE that starts at position i of the
\* lower-cased line l, 0 when there is none
LinkLenAt(l, i) ==
    LET a == i + 4
        b == IF HasPrefixAt(l, a, <<"s">>) THEN a + 1 ELSE a
        c == b + 3
        d == IF HasPrefixAt(l, c, <<"w", "w", "w", ".">>) THEN c + 4 ELSE c
        e == d + 14
    IN  IF /\ HasPrefixAt(l, i, <<"h", "t", "t", "p">>)
           /\ HasPrefixAt(l, b, <<":", "/", "/">>)
           /\ HasPrefixAt(l, d, <<"h", "h", ".", "r", "u", "/",
                                  "v", "a", "c", "a", "n", "c", "y", "/">>)
           /\ DigitRunAt(l, e) >= 1
        THEN e + DigitRunAt(l, e) - i
        ELSE 0

\* VACANCY_LINK_RE.search(line): group(0) of the leftmost match, <<>> for
\* None; the pattern is compiled with re.IGNORECASE
LinkSearch(line) ==
    LET l == Lower(line)
        P == {i \in 1..Len(line) : l[i] = "h" /\ LinkLenAt(l, i) > 0}
    IN  IF P = {} THEN <<>>
        ELSE LET i == CHOOSE j \in P : \A h \in P : j <= h
             IN  SubSeq(line, i, i + LinkLenAt(l, i) - 1)

\* faulty variant: the keyword is compared as written, not normalised
_is_banned_title_RawKeyword(title, banned_keywords) ==
    LET normalized_title == _normalize_wording(title)
    IN  \E k \in 1..Len(banned_keywords) :
            /\ Strip(banned_keywords[k]) # <<>>
            /\ Contains(normalized_title, banned_keywords[k])

_is_banned_title(title, banned_keywords) ==
    LET normalized_title == _normalize_wording(title)
    IN  \E k \in 1..Len(banned_keywords) :
            /\ Strip(banned_keywords[k]) # <<>>
            /\ Contains(normalized_title, _normalize_wording(banned_keywords[k]))

_is_remote_work_line(text) ==
    LET normalized == _normalize_wording(text)
    IN  \E k \in REMOTE_WORK_KEYWORDS : Contains(normalized, k)

\* inline_title_links.get(key), <<>> for a missing key
InlineLink(links, key) == IF key \in DOMAIN links THEN links[key] ELSE <<>>

\* VacancyItem (the company field is the same for every item of a message
\* and is not modelled)
VacancyItem(title, link) == [title |-> title, link |-> link]

VacancyParseResult(selected, detected) ==
    [selected_items |-> selected, detected_items |-> detected]

\* "vrach", "voditelj", "agent", "terapevt", "dispetcher"
DEFAULT_BANNED_KEYWORDS ==
    << <<"v", "r", "a", "ch">>,
       <<"v", "o", "d", "i", "t", "e", "l", "j">>,
       <<"a", "g", "e", "n", "t">>,
       <<"t", "e", "r", "a", "p", "e", "v", "t">>,
       <<"d", "i", "s", "p", "e", "t", "ch", "e", "r">> >>

(***************************************************************************)
(* The key-value table of app/db.py.  A stored text is kept by what        *)
(* json.loads makes of it: json.dumps and json.loads are inverse on the    *)
(* values below, and a text that json.loads rejects is the row kind        *)
(* "garbage".                                                              *)
(***************************************************************************)
\* the empty dict
EmptyDict == <<>>

JNull == [t |-> "null", n |-> 0, s |-> <<>>, o |-> EmptyDict]

JInt(k) == [t |-> "int", n |-> k, s |-> <<>>, o |-> EmptyDict]

JStr(str) == [t |-> "str", n |-> 0, s |-> str, o |-> EmptyDict]

\* a JSON array (its elements are never read)
JList == [t |-> "list", n |-> 0, s |-> <<>>, o |-> EmptyDict]

JObj(fields) == [t |-> "object", n |-> 0, s |-> <<>>, o |-> fields]

\* the row of a key: absent, an empty text, a text that is not JSON, or JSON
NoRow == [kind |-> "absent", val |-> JNull]

JsonRow(j) == [kind |-> "json", val |-> j]

\* dict.get(key, default)
DictGet(d, key, default) == IF key \in DOMAIN d THEN d[key] ELSE default

\* dict.update(other)
DictUpdate(d, other) ==
    [k \in (DOMAIN d) \cup (DOMAIN other) |-> IF k \in DOMAIN other THEN other[k] ELSE d[k]]

DigitValue(c) ==
    CHOOSE d \in 0..9 : <<"0", "1", "2", "3", "4", "5", "6", "7", "8", "9">>[d + 1] = c

RECURSIVE DecimalValue(_)
DecimalValue(str) ==
    IF str = <<>> THEN 0
    ELSE 10 * DecimalValue(SubSeq(str, 1, Len(str) - 1)) + DigitValue(str[Len(str)])

\* int(x) of a deserialized value: the number, or the exception it raises
IntOf(j) ==
    IF j.t = "int" THEN [ok |-> TRUE, v |-> j.n]
    ELSE IF j.t = "str"
         THEN LET body == Strip(j.s)
                  signed == body # <<>> /\ body[1] \in {"-", "+"}
                  digits == IF signed THEN Tail(body) ELSE body
              IN  IF digits # <<>> /\ \A i \in 1..Len(digits) : digits[i] \in Digits
                  THEN [ok |-> TRUE,
                        v |-> IF signed /\ body[1] = "-"
                              THEN 0 - DecimalValue(digits)
                              ELSE DecimalValue(digits)]
                  ELSE [ok |-> FALSE, v |-> 0]
         ELSE [ok |-> FALSE, v |-> 0]

\* {"date": date_key, "total": 0, "other": 0, "claims": {}}
ZeroStats(date_key) ==
    [k \in {"date", "total", "other", "claims"} |->
        IF k = "date" THEN JStr(date_key)
        ELSE IF k = "claims" THEN JObj(EmptyDict)
        ELSE JInt(0)]

\* add_daily_stats: the defaults overlaid with a stored object
LoadedStats(row, date_key) ==
    IF row.kind = "json" /\ row.val.t = "object"
    THEN DictUpdate(ZeroStats(date_key), row.val.o)
    ELSE ZeroStats(date_key)

\* faulty variant: the counters of another date are kept
StatsForDate_NoReset(stats, date_key) == stats

\* add_daily_stats: the counters are reset when the date stamp is not today's
StatsForDate(stats, date_key) ==
    IF DictGet(stats, "date", JNull) # JStr(date_key) THEN ZeroStats(date_key) ELSE stats

\* stats.get("claims") or {}, replaced by {} when it is not a dict
ClaimsOf(stats) ==
    LET c == DictGet(stats, "claims", JNull)
    IN  IF c.t = "object" THEN c.o ELSE EmptyDict

\* add_daily_stats, from the selected row to the row it writes; raised is
\* TRUE when an int() conversion fails, and then nothing is written
add_daily_stats(row, date_key, total_delta, other_d, claim_d) ==
    LET stats == StatsForDate(LoadedStats(row, date_key), date_key)
        total == IntOf(DictGet(stats, "total", JInt(0)))
        other == IntOf(DictGet(stats, "other", JInt(0)))
        claims == ClaimsOf(stats)
        claimsOk ==
            \A c \in DOMAIN claim_d : IntOf(DictGet(claims, c, JInt(0))).ok
        newClaims ==
            [c \in (DOMAIN claims) \cup (DOMAIN claim_d) |->
                IF c \in DOMAIN claim_d
                THEN JInt(IntOf(DictGet(claims, c, JInt(0))).v + claim_d[c])
                ELSE claims[c]]
        newStats ==
            [k \in DOMAIN stats |->
                IF k = "total" THEN JInt(total.v + total_delta)
                ELSE IF k = "other" THEN JInt(other.v + other_d)
                ELSE IF k = "claims" THEN JObj(newClaims)
                ELSE stats[k]]
    IN  IF total.ok /\ other.ok /\ claimsOk
        THEN [raised |-> FALSE, row |-> JsonRow(JObj(newStats))]
        ELSE [raised |-> TRUE, row |-> row]

\* what get_today_daily_stats returns when it falls back
ZeroToday(date_key) == [date |-> date_key, total |-> 0, other |-> 0, claims |-> EmptyDict]

\* get_today_daily_stats on the stored row: the dict it returns, or raised
get_today_daily_stats(row, date_key) ==
    LET zero == [raised |-> FALSE, value |-> ZeroToday(date_key)]
    IN  IF row.kind # "json" THEN zero
        ELSE IF row.val.t # "object" THEN zero
        ELSE LET stats == row.val.o
             IN  IF DictGet(stats, "date", JNull) # JStr(date_key) THEN zero
                 ELSE LET claims == ClaimsOf(stats)
                          total == IntOf(DictGet(stats, "total", JInt(0)))
                          other == IntOf(DictGet(stats, "other", JInt(0)))
                      IN  IF /\ \A c \in DOMAIN claims : IntOf(claims[c]).ok
                             /\ total.ok
                             /\ other.ok
                          THEN [raised |-> FALSE,
                                value |-> [date |-> date_key,
                                           total |-> total.v,
                                           other |-> other.v,
                                           claims |-> [c \in DOMAIN claims |->
                                                          IntOf(claims[c]).v]]]
                          ELSE [raised |-> TRUE, value |-> ZeroToday(date_key)]

(***************************************************************************)
(* Inputs: the lines messages are made of                                  *)
(***************************************************************************)
\* longest generated message, in lines
MaxLines == 3

Url1 == <<"h", "t", "t", "p", "s", ":", "/", "/", "h", "h", ".", "r", "u", "/",
          "v", "a", "c", "a", "n", "c", "y", "/", "1">>
Url2 == <<"h", "t", "t", "p", ":", "/", "/", "w", "w", "w", ".", "H", "H", ".", "r", "u", "/",
          "v", "a", "c", "a", "n", "c", "y", "/", "2", "2">>
Url8 == <<"h", "t", "t", "p", "s", ":", "/", "/", "h", "h", ".", "r", "u", "/",
          "v", "a", "c", "a", "n", "c", "y", "/", "8">>
Url9 == <<"h", "t", "t", "p", "s", ":", "/", "/", "h", "h", ".", "r", "u", "/",
          "v", "a", "c", "a", "n", "c", "y", "/", "9">>

BlankLine == <<>>
\* "Sankt-Peterburg"
HdrSpb == DefaultTargetCity
\* "SPB (2):"
HdrSpbCounted == <<"S", "P", "B", " ", "(", "2", ")", ":">>
\* "Pityor:"
HdrPiter == <<"P", "i", "t", "yo", "r", ":">>
\* "Moskva"
HdrMoscow == <<"M", "o", "s", "k", "v", "a">>
\* "Moskva (1)"
HdrMoscowCounted == <<"M", "o", "s", "k", "v", "a", " ", "(", "1", ")">>
\* "Tverj"
HdrTver == <<"T", "v", "e", "r", "j">>
\* "1. Urist EM ZP"
EntryUrist == <<"1", ".", " ", "U", "r", "i", "s", "t", " ", "EM", " ", "Z", "P">>
\* "2. Glavvrach"
EntryGlavvrach == <<"2", ".", " ", "G", "l", "a", "v", "v", "r", "a", "ch">>
\* "3. SHofyor EM ZP"
EntryShofer == <<"3", ".", " ", "SH", "o", "f", "yo", "r", " ", "EM", " ", "Z", "P">>
\* "4. Urist EM Udalyonnaya  rabota"
EntryUristRemote ==
    <<"4", ".", " ", "U", "r", "i", "s", "t", " ", "EM", " ",
      "U", "d", "a", "l", "yo", "n", "n", "a", "ya", " ", " ", "r", "a", "b", "o", "t", "a">>
\* "S: https://hh.ru/vacancy/1"
LinkLine1 == <<"S", ":", " ">> \o Url1
\* "http://www.HH.ru/vacancy/22 "
LinkLine2 == Url2 \o <<" ">>
\* "ZP: 100"
SalaryLine == <<"Z", "P", ":", " ", "1", "0", "0">>

LinePool ==
    { BlankLine, HdrSpbCounted, HdrPiter, HdrMoscow,
      EntryUrist, EntryGlavvrach, EntryUristRemote, LinkLine1, SalaryLine }

\* Moscow (1 entry), Saint Petersburg (3 entries, one banned), a third city (1 entry)
ScenarioThreeCities ==
    << HdrMoscow, EntryUrist, LinkLine1, BlankLine,
       HdrSpb, EntryUrist, LinkLine2, BlankLine, EntryGlavvrach, LinkLine1, BlankLine,
       EntryShofer, LinkLine1, BlankLine,
       HdrTver, EntryUrist, LinkLine2 >>

\* two counted headers back to back (WITH_COUNTED_MULTI_CITY)
ScenarioCounted ==
    << HdrSpbCounted, EntryUrist, LinkLine1, BlankLine,
       HdrMoscowCounted, EntryGlavvrach, LinkLine2 >>

\* a remote entry in the Moscow section (WITH_REMOTE_IN_MOSCOW)
ScenarioRemoteInMoscow ==
    << SalaryLine, BlankLine, HdrMoscow, EntryUristRemote, LinkLine1, BlankLine,
       HdrSpb, EntryGlavvrach, LinkLine2 >>

\* a pending entry replaced by the next one, a second link line, a salary
\* line before the link, an entry still pending where the section ends
ScenarioPending ==
    << HdrSpb, EntryGlavvrach, EntryUrist, SalaryLine, LinkLine2, LinkLine1,
       EntryUristRemote, HdrMoscowCounted, LinkLine1 >>

Scenarios == {ScenarioThreeCities, ScenarioCounted, ScenarioRemoteInMoscow, ScenarioPending}

SeqsUpTo(S, n) == UNION {[1..k -> S] : k \in 0..n}

\* every message of at most MaxLines lines of the pool
Messages == {JoinLines(ls) : ls \in SeqsUpTo(LinePool, MaxLines)}

ScenarioMessages == {JoinLines(ls) : ls \in Scenarios}

\* "", " ", " VRach ", "shofYOr"
BannedMixed ==
    << <<>>, <<" ">>, <<" ", "V", "R", "a", "ch", " ">>, <<"sh", "o", "f", "YO", "r">> >>

BannedLists == {<<>>, BannedMixed}

\* title-to-link maps as extract_inline_hh_links_from_entities builds them:
\* keys are normalised titles
NoInlineLinks == [k \in {} |-> <<>>]
InlineUrist == [k \in {<<"u", "r", "i", "s", "t">>} |-> Url9]
InlineBoth ==
    [k \in {<<"u", "r", "i", "s", "t">>, <<"g", "l", "a", "v", "v", "r", "a", "ch">>} |->
        IF k = <<"u", "r", "i", "s", "t">> THEN Url9 ELSE Url8]

InlineMaps == {NoInlineLinks, InlineBoth}

\* targets of extract_city_block: the four aliases, "Sankt-Peterburg",
\* "Pityor", "Moskva" and "Tverj"
AliasSpellings == SPB_ALIASES \cup {DefaultTargetCity, <<"P", "i", "t", "yo", "r">>}

TargetCities == AliasSpellings \cup {HdrMoscow, HdrTver}

(***************************************************************************)
(* State                                                                   *)
(***************************************************************************)
VARIABLES
    text,                \* the message
    banned_keywords,     \* the banned keyword tuple
    inline_title_links,  \* the title-to-link map
    target_city,         \* the target of a call of extract_city_block
    pc,                  \* "idle", "block_done", "spb", "spb_done", "remote", "done"
    block,               \* the city block that was extracted
    lines,               \* the list the running parse iterates over
    idx,                 \* position of the for loop in lines
    current_title,       \* locals of the running parse
    current_is_remote,
    detected_items,
    selected_items,
    spb_result,          \* what parse_spb_vacancies returned
    remote_result        \* what parse_remote_vacancies returned

\* the mail digest: the key-value table of db.py, the IMAP mailbox, the
\* asyncio event loop and the coroutines that call run_digest
VARIABLES
    today,               \* _today_key(timezone), the current local date
    kv_last_uid,         \* kv["last_uid"]
    kv_uidvalidity,      \* kv["uidvalidity"]
    kv_daily_stats,      \* kv["daily_stats"]
    kv_paused,           \* kv["paused"]
    mailbox,             \* the subject of every message of the folder, by UID
    folder_uidvalidity,  \* the UIDVALIDITY the server reports for the folder
    delta_log,           \* history: the sums of the deltas of the calls of add_daily_stats
    task_pc,             \* where each coroutine stands
    last_uid,            \* locals of run_digest, one copy per coroutine
    uids,
    pos,                 \* position of "for uid in uids"
    max_uid_processed,
    claim_map,
    other_items,
    failed,
    claim_deltas,
    other_delta,
    stats_row,           \* date_key and the row add_daily_stats selected
    claim_groups,
    digest_result,       \* what run_digest returned or raised
    daily_view           \* the last call of get_today_daily_stats: what it read and returned

\* the Telegram source: the annotation spans of the message being parsed,
\* and the fetch limit from the environment to the fetch of the messages
VARIABLES
    entities,            \* msg.entities: each the attributes of one span, by name
    fetch_pc,            \* "start", "failed", "loaded", "disabled", "fetched"
    fetch_env,           \* os.environ: whether TELEGRAM_SOURCE_FETCH_LIMIT is set, and its text
    fetch_cfg,           \* cfg.telegram_source_fetch_limit
    fetch_limit          \* the limit get_messages was called with

parser_vars ==
    <<text, banned_keywords, inline_title_links, target_city, pc, block, lines, idx,
      current_title, current_is_remote, detected_items, selected_items, spb_result,
      remote_result>>

store_vars ==
    <<today, kv_last_uid, kv_uidvalidity, kv_daily_stats, kv_paused, mailbox,
      folder_uidvalidity, delta_log>>

run_vars ==
    <<task_pc, last_uid, uids, pos, max_uid_processed, claim_map, other_items,
      failed, claim_deltas, other_delta, stats_row, claim_groups, digest_result, daily_view>>

aside_vars == <<entities, fetch_pc, fetch_env, fetch_cfg, fetch_limit>>

VARIABLES
    emails_per_run,      \* cfg.max_emails_per_run
    owner_messages,      \* the calls of send_to_owner of the latest scheduled trigger
    run_log              \* history: what the runs so far summarized, failed on and counted

service_vars == <<emails_per_run, owner_messages, run_log>>

\* everything that is not state of the vacancy parser
beyond_parser == <<store_vars, run_vars, aside_vars, service_vars>>

vars == <<parser_vars, beyond_parser>>

inputs == <<text, banned_keywords, inline_title_links, target_city>>

NoResult == [selected_items |-> <<>>, detected_items |-> -1]

\* the coroutines: the scheduled digest job and the /digest_now handler
Tasks == {"job", "cmd"}

\* a date of the configured time zone and the next one, in ISO format
Day1 == <<"2", "0", "2", "6", "-", "0", "3", "-", "0", "2">>
Day2 == <<"2", "0", "2", "6", "-", "0", "3", "-", "0", "3">>

\* the UIDVALIDITY of the folder
Validity1 == <<"1", "7">>

NoDeltas == [total |-> 0, other |-> 0, claims |-> EmptyDict]

\* the table is empty
StoreEmpty ==
    /\ today = Day1
    /\ kv_last_uid = 0
    /\ kv_uidvalidity = <<>>
    /\ kv_daily_stats = NoRow
    /\ kv_paused = <<>>
    /\ folder_uidvalidity = Validity1
    /\ delta_log = NoDeltas

NoDigestResult == [status |-> "none", total |-> 0, failed |-> 0]

\* no coroutine has started
RunsAtRest ==
    /\ task_pc = [t \in Tasks |-> "idle"]
    /\ last_uid = [t \in Tasks |-> 0]
    /\ uids = [t \in Tasks |-> <<>>]
    /\ pos = [t \in Tasks |-> 1]
    /\ max_uid_processed = [t \in Tasks |-> 0]
    /\ claim_map = [t \in Tasks |-> <<>>]
    /\ other_items = [t \in Tasks |-> <<>>]
    /\ failed = [t \in Tasks |-> <<>>]
    /\ claim_deltas = [t \in Tasks |-> EmptyDict]
    /\ other_delta = [t \in Tasks |-> 0]
    /\ stats_row = [t \in Tasks |-> [date_key |-> Day1, row |-> NoRow]]
    /\ claim_groups = [t \in Tasks |-> <<>>]
    /\ digest_result = [t \in Tasks |-> NoDigestResult]
    /\ daily_view = [called |-> FALSE, date_key |-> Day1, row |-> NoRow, raised |-> FALSE,
                     value |-> ZeroToday(Day1)]

\* no span; the configuration is not loaded, the variable is not set
AsideAtRest ==
    /\ entities = <<>>
    /\ fetch_pc = "start"
    /\ fetch_env = [set |-> FALSE, text |-> <<>>]
    /\ fetch_cfg = 0
    /\ fetch_limit = 0

\* MAX_EMAILS_PER_RUN is not set: the default
max_emails_per_run == 80

\* summarized and failed: the emails, as <<UIDVALIDITY, UID>>, that the runs
\* which reached set_last_uid handed to summarize_email, and those of them
\* whose summarization failed; aborted: the emails handed to summarize_email
\* by the runs that an exception of the mailbox ended inside the loop;
\* by_date: per date, the emails of the runs that reached add_daily_stats
NoRunLog == [summarized |-> {}, failed |-> {}, aborted |-> {}, by_date |-> EmptyDict]

\* the default configuration, no run so far
ServiceAtRest ==
    /\ emails_per_run = max_emails_per_run
    /\ owner_messages = 0
    /\ run_log = NoRunLog

BeyondParserAtRest ==
    StoreEmpty /\ mailbox = <<>> /\ RunsAtRest /\ AsideAtRest /\ ServiceAtRest

ParserAtRest ==
    /\ text = <<>>
    /\ banned_keywords = <<>>
    /\ inline_title_links = NoInlineLinks
    /\ target_city = DefaultTargetCity
    /\ pc = "idle"
    /\ block = <<>>
    /\ lines = <<>>
    /\ idx = 1
    /\ current_title = <<>>
    /\ current_is_remote = FALSE
    /\ detected_items = 0
    /\ selected_items = <<>>
    /\ spb_result = NoResult
    /\ remote_result = NoResult

Init ==
    /\ \/ /\ text \in Messages
          /\ banned_keywords \in BannedLists
          /\ inline_title_links \in InlineMaps
       \/ /\ text \in ScenarioMessages
          /\ banned_keywords \in BannedLists \cup {DEFAULT_BANNED_KEYWORDS}
          /\ inline_title_links \in InlineMaps \cup {InlineUrist}
    /\ target_city = DefaultTargetCity
    /\ pc = "idle"
    /\ block = <<>>
    /\ lines = <<>>
    /\ idx = 1
    /\ current_title = <<>>
    /\ current_is_remote = FALSE
    /\ detected_items = 0
    /\ selected_items = <<>>
    /\ spb_result = NoResult
    /\ remote_result = NoResult
    /\ BeyondParserAtRest

(***************************************************************************)
(* The scanning loops                                                      *)
(***************************************************************************)
\* faulty variant: remote entries are not gated out
SpbEligible_All(is_remote) == TRUE

\* the gate of section-scoped mode: "not current_is_remote"
SpbEligible(is_remote) == ~is_remote

\* faulty variant: entries without the remote-work keyword pass the gate
RemoteEligible_All(is_remote) == TRUE

\* the gate of whole-message mode: "current_is_remote"
RemoteEligible(is_remote) == is_remote

\* faulty variant: the increment is forgotten
CountEntry_NoIncrement(detected, eligible) == detected

\* faulty variant: an entry is counted twice
CountEntry_Twice(detected, eligible) == IF eligible THEN detected + 2 ELSE detected

\* "detected_items += 1" under the mode's gate
CountEntry(detected, eligible) == IF eligible THEN detected + 1 ELSE detected

\* "selected_items.append(VacancyItem(...))" under the mode's gate and the
\* banned-keyword test
SelectEntry(selected, eligible, title, link, banned) ==
    IF eligible /\ ~_is_banned_title(title, banned)
    THEN Append(selected, VacancyItem(title, link))
    ELSE selected

\* faulty variant: a link line finalises an entry even when none is pending
LinkFinalizes_NoPending(link_m, title) == link_m # <<>>

\* faulty variant: any line finalises the pending entry
LinkFinalizes_AnyLine(link_m, title) == title # <<>>

\* "link_m and current_title": a link line finalises the pending entry
LinkFinalizes(link_m, title) == link_m # <<>> /\ title # <<>>

\* parse_spb_vacancies up to the loop
CallParseSpb ==
    /\ pc = "idle"
    /\ block' = extract_city_block(text, DefaultTargetCity)
    /\ IF block' = <<>>
       THEN /\ spb_result' = VacancyParseResult(<<>>, 0)
            /\ pc' = "spb_done"
            /\ UNCHANGED <<lines, idx>>
       ELSE /\ lines' = StrippedNonEmpty(SplitLines(block'))
            /\ idx' = 2
            /\ pc' = "spb"
            /\ UNCHANGED spb_result
    /\ selected_items' = <<>>
    /\ detected_items' = 0
    /\ current_title' = <<>>
    /\ current_is_remote' = FALSE
    /\ UNCHANGED <<beyond_parser, inputs, remote_result>>

\* one iteration of the loop of parse_spb_vacancies
SpbScanLine ==
    /\ pc = "spb"
    /\ idx <= Len(lines)
    /\ LET line == lines[idx]
       IN  IF IsNumberedLine(line)
           THEN LET raw_title == RawTitle(line)
                    is_remote == _is_remote_work_line(raw_title)
                    title == TitleOf(raw_title)
                    inline_link == InlineLink(inline_title_links, _normalize_wording(title))
                IN  IF inline_link # <<>>
                    THEN /\ detected_items' = CountEntry(detected_items, SpbEligible(is_remote))
                         /\ selected_items' = SelectEntry(selected_items, SpbEligible(is_remote),
                                                          title, inline_link, banned_keywords)
                         /\ current_title' = <<>>
                         /\ current_is_remote' = FALSE
                    ELSE /\ current_title' = title
                         /\ current_is_remote' = is_remote
                         /\ UNCHANGED <<detected_items, selected_items>>
           ELSE LET link_m == LinkSearch(line)
                IN  IF LinkFinalizes(link_m, current_title)
                    THEN /\ detected_items' =
                                CountEntry(detected_items, SpbEligible(current_is_remote))
                         /\ selected_items' =
                                SelectEntry(selected_items, SpbEligible(current_is_remote),
                                            current_title, link_m, banned_keywords)
                         /\ current_title' = <<>>
                         /\ current_is_remote' = FALSE
                    ELSE UNCHANGED <<detected_items, selected_items,
                                     current_title, current_is_remote>>
    /\ idx' = idx + 1
    /\ UNCHANGED <<beyond_parser, inputs, pc, block, lines, spb_result, remote_result>>

\* the return statement of parse_spb_vacancies
ReturnSpb ==
    /\ pc = "spb"
    /\ idx > Len(lines)
    /\ spb_result' = VacancyParseResult(selected_items, detected_items)
    /\ pc' = "spb_done"
    /\ UNCHANGED <<beyond_parser, inputs, block, lines, idx, current_title, current_is_remote,
                   detected_items, selected_items, remote_result>>

\* faulty variant: the whole-message parse scans the city block only
CallParseRemote_SectionOnly ==
    /\ pc = "spb_done"
    /\ IF extract_city_block(text, DefaultTargetCity) = <<>>
       THEN /\ remote_result' = VacancyParseResult(<<>>, 0)
            /\ pc' = "done"
            /\ UNCHANGED <<lines, idx>>
       ELSE /\ lines' = StrippedNonEmpty(SplitLines(
                            extract_city_block(text, DefaultTargetCity)))
            /\ idx' = 1
            /\ pc' = "remote"
            /\ UNCHANGED remote_result
    /\ selected_items' = <<>>
    /\ detected_items' = 0
    /\ current_title' = <<>>
    /\ current_is_remote' = FALSE
    /\ UNCHANGED <<beyond_parser, inputs, block, spb_result>>

\* parse_remote_vacancies up to the loop
CallParseRemote ==
    /\ pc = "spb_done"
    /\ IF text = <<>>
       THEN /\ remote_result' = VacancyParseResult(<<>>, 0)
            /\ pc' = "done"
            /\ UNCHANGED <<lines, idx>>
       ELSE /\ lines' = StrippedNonEmpty(SplitLines(text))
            /\ idx' = 1
            /\ pc' = "remote"
            /\ UNCHANGED remote_result
    /\ selected_items' = <<>>
    /\ detected_items' = 0
    /\ current_title' = <<>>
    /\ current_is_remote' = FALSE
    /\ UNCHANGED <<beyond_parser, inputs, block, spb_result>>

\* one iteration of the loop of parse_remote_vacancies
RemoteScanLine ==
    /\ pc = "remote"
    /\ idx <= Len(lines)
    /\ LET line == lines[idx]
       IN  IF IsNumberedLine(line)
           THEN LET raw_title == RawTitle(line)
                    title == TitleOf(raw_title)
                    is_remote == _is_remote_work_line(raw_title)
                    inline_link == InlineLink(inline_title_links, _normalize_wording(title))
                IN  IF inline_link # <<>> /\ RemoteEligible(is_remote)
                    THEN /\ detected_items' = CountEntry(detected_items, TRUE)
                         /\ selected_items' = SelectEntry(selected_items, TRUE, title,
                                                          inline_link, banned_keywords)
                         /\ current_title' = <<>>
                         /\ current_is_remote' = FALSE
                    ELSE /\ current_title' = title
                         /\ current_is_remote' = is_remote
                         /\ UNCHANGED <<detected_items, selected_items>>
           ELSE LET link_m == LinkSearch(line)
                IN  IF LinkFinalizes(link_m, current_title) /\ RemoteEligible(current_is_remote)
                    THEN /\ detected_items' = CountEntry(detected_items, TRUE)
                         /\ selected_items' = SelectEntry(selected_items, TRUE, current_title,
                                                          link_m, banned_keywords)
                         /\ current_title' = <<>>
                         /\ current_is_remote' = FALSE
                    ELSE UNCHANGED <<detected_items, selected_items,
                                     current_title, current_is_remote>>
    /\ idx' = idx + 1
    /\ UNCHANGED <<beyond_parser, inputs, pc, block, lines, spb_result, remote_result>>

\* the return statement of parse_remote_vacancies
ReturnRemote ==
    /\ pc = "remote"
    /\ idx > Len(lines)
    /\ remote_result' = VacancyParseResult(selected_items, detected_items)
    /\ pc' = "done"
    /\ UNCHANGED <<beyond_parser, inputs, block, lines, idx, current_title, current_is_remote,
                   detected_items, selected_items, spb_result>>

Next ==
    \/ CallParseSpb
    \/ SpbScanLine
    \/ ReturnSpb
    \/ CallParseRemote
    \/ RemoteScanLine
    \/ ReturnRemote

Spec == Init /\ [][Next]_vars

(***************************************************************************)
(* extract_city_block called on its own, for any target                    *)
(***************************************************************************)
InitBlock ==
    /\ text \in Messages \cup ScenarioMessages
    /\ target_city \in TargetCities
    /\ banned_keywords = <<>>
    /\ inline_title_links = NoInlineLinks
    /\ pc = "idle"
    /\ block = <<>>
    /\ lines = <<>>
    /\ idx = 1
    /\ current_title = <<>>
    /\ current_is_remote = FALSE
    /\ detected_items = 0
    /\ selected_items = <<>>
    /\ spb_result = NoResult
    /\ remote_result = NoResult
    /\ BeyondParserAtRest

CallExtractCityBlock ==
    /\ pc = "idle"
    /\ block' = extract_city_block(text, target_city)
    /\ pc' = "block_done"
    /\ UNCHANGED <<beyond_parser, inputs, lines, idx, current_title, current_is_remote,
                   detected_items, selected_items, spb_result, remote_result>>

NextBlock == CallExtractCityBlock

SpecBlock == InitBlock /\ [][NextBlock]_vars

TypeOK ==
    /\ pc \in {"message", "idle", "block_done", "spb", "spb_done", "remote", "done"}
    /\ detected_items \in Nat
    /\ idx \in 1..(Len(lines) + 1)

(***************************************************************************)
(* The mail digest of app/digest.py: claim extraction                      *)
(***************************************************************************)
\* the class [A-Za-z and the letters of the Cyrillic alphabet] of CLAIM_RE
IsClaimLetter(c) == c \in UpperSet \cup LowerSet

\* how many of the code points from q on are letters, up to four
LetterRunAt(s, q) ==
    SetMax({k \in 0..4 : \A i \in q..(q + k - 1) : i <= Len(s) /\ IsClaimLetter(s[i])})

\* (?:-[letters]{1,4}){0,n}(?!\d) matched at q, greedy with backtracking:
\* the position after the match, or 0 when there is none.  TryLetters tries
\* a chunk of k letters, then of fewer
RECURSIVE ChunksEnd(_, _, _), TryLetters(_, _, _, _)
TryLetters(s, q, n, k) ==
    IF k = 0 THEN 0
    ELSE LET e == ChunksEnd(s, q + 1 + k, n - 1)
         IN  IF e # 0 THEN e ELSE TryLetters(s, q, n, k - 1)

ChunksEnd(s, q, n) ==
    LET more ==
            IF n > 0 /\ q <= Len(s) /\ s[q] = "-"
            THEN TryLetters(s, q, n, LetterRunAt(s, q + 1))
            ELSE 0
    IN  IF more # 0 THEN more
        ELSE IF q <= Len(s) /\ s[q] \in Digits THEN 0
        ELSE q

\* faulty variant: the digit before the token is not looked at
ClaimStartOk_Any(s, p) == TRUE

\* (?<!\d) at p
ClaimStartOk(s, p) == p = 1 \/ s[p - 1] \notin Digits

\* CLAIM_RE matched at p: the position after the match, or 0
ClaimMatchEnd(s, p) ==
    IF /\ ClaimStartOk(s, p)
       /\ p + 4 <= Len(s)
       /\ \A i \in p..(p + 4) : s[i] \in Digits
    THEN ChunksEnd(s, p + 5, 3)
    ELSE 0

\* None is the empty sequence: a match is never empty
_extract_claim(subject) ==
    LET starts == {p \in 1..Len(subject) : ClaimMatchEnd(subject, p) # 0}
    IN  IF starts = {} THEN <<>>
        ELSE LET p == CHOOSE x \in starts : \A y \in starts : x <= y
             IN  SubSeq(subject, p, ClaimMatchEnd(subject, p) - 1)

\* faulty variant: the search returns every UID of the folder
SearchReplies_All(last) ==
    {r \in [1..Len(mailbox) -> DOMAIN mailbox] : \A i, j \in DOMAIN r : i # j => r[i] # r[j]}

(***************************************************************************)
(* run_digest                                                              *)
(***************************************************************************)
\* MAX_EMAILS_PER_RUN
\* what the server may answer to UID SEARCH (UID last+1:*): the UIDs above
\* last, once each, in an order the protocol does not fix
SearchReplies(last) ==
    LET found == {u \in DOMAIN mailbox : u > last}
    IN  {r \in [1..Cardinality(found) -> found] : \A i, j \in DOMAIN r : i # j => r[i] # r[j]}

\* fetch_uids_since: the newest max_results of the reply
fetch_uids_since(reply, max_results) ==
    IF Len(reply) > max_results
    THEN SubSeq(reply, Len(reply) - max_results + 1, Len(reply))
    ELSE reply

\* faulty variant: the items stay in the order they were fetched
SortedByUid_Unsorted(items) == items

\* sorted(items, key=uid), a stable sort
RECURSIVE SortedByUid(_)
SortedByUid(items) ==
    IF items = <<>> THEN <<>>
    ELSE LET rest == SortedByUid(SubSeq(items, 1, Len(items) - 1))
             x == items[Len(items)]
             k == Cardinality({i \in 1..Len(rest) : rest[i].uid <= x.uid})
         IN  SubSeq(rest, 1, k) \o <<x>> \o SubSeq(rest, k + 1, Len(rest))

\* faulty variant: the groups stay in the order their claims were first seen
SortedByLastUidDesc_Unsorted(groups) == groups

\* groups.sort(key=last_uid, reverse=True), a stable sort
RECURSIVE SortedByLastUidDesc(_)
SortedByLastUidDesc(groups) ==
    IF groups = <<>> THEN <<>>
    ELSE LET rest == SortedByLastUidDesc(SubSeq(groups, 1, Len(groups) - 1))
             x == groups[Len(groups)]
             k == Cardinality({i \in 1..Len(rest) : rest[i].last_uid >= x.last_uid})
         IN  SubSeq(rest, 1, k) \o <<x>> \o SubSeq(rest, k + 1, Len(rest))

\* one group per key of claim_map, in insertion order
GroupOf(entry) ==
    LET items_sorted == SortedByUid(entry.items)
    IN  [claim_id |-> entry.claim_id,
         items |-> items_sorted,
         last_uid |-> IF items_sorted # <<>> THEN items_sorted[Len(items_sorted)].uid ELSE 0]

BuildClaimGroups(cmap) == SortedByLastUidDesc([i \in 1..Len(cmap) |-> GroupOf(cmap[i])])

\* faulty variant: every item opens a group of its own
AppendToClaim_NewGroup(cmap, item) ==
    Append(cmap, [claim_id |-> item.claim_id, items |-> <<item>>])

\* claim_map.setdefault(claim_id, []).append(item)
AppendToClaim(cmap, item) ==
    IF \E i \in 1..Len(cmap) : cmap[i].claim_id = item.claim_id
    THEN [i \in 1..Len(cmap) |->
             IF cmap[i].claim_id = item.claim_id
             THEN [cmap[i] EXCEPT !.items = Append(@, item)]
             ELSE cmap[i]]
    ELSE Append(cmap, [claim_id |-> item.claim_id, items |-> <<item>>])

\* sum(len(g["items"]) for g in claim_groups)
RECURSIVE GroupedCount(_)
GroupedCount(groups) ==
    IF groups = <<>> THEN 0 ELSE Len(groups[1].items) + GroupedCount(Tail(groups))

\* faulty variant: a coroutine is resumed while another one is inside run_digest
LoopFreeFor_Always(t) == TRUE

\* the event loop runs one coroutine at a time, from one await to the next,
\* and run_digest has no await
LoopFreeFor(t) == \A u \in Tasks \ {t} : task_pc[u] \notin {"call", "loop", "stats"}

\* faulty variant: the flag is never read as set
get_paused_Never == FALSE

\* (kv_get("paused") or "0") == "1"
get_paused == (IF kv_paused = <<>> THEN <<"0">> ELSE kv_paused) = <<"1">>

\* kv_set("paused", "1" if paused else "0")
set_paused(paused) == IF paused THEN <<"1">> ELSE <<"0">>

\* the calls of send_to_owner after run_digest has returned or raised: the
\* digest and the count of emails, then the statistics of the day when the
\* run is the one of the last hour; one message for an exception.  The
\* /digest_now command answers in its chat.
JobReport(t, status, last_hour) ==
    IF t # "job"
    THEN owner_messages
    ELSE IF status \in {"ok", "empty"} THEN (IF last_hour THEN 3 ELSE 2) ELSE 1

\* scheduled_digest_job up to the call of run_digest
JobFires ==
    /\ task_pc["job"] \in {"idle", "done"}
    /\ LoopFreeFor("job")
    /\ owner_messages' = 0
    /\ IF get_paused
       THEN /\ task_pc' = [task_pc EXCEPT !["job"] = "done"]
            /\ digest_result' = [digest_result EXCEPT !["job"] =
                                    [NoDigestResult EXCEPT !.status = "skipped"]]
       ELSE /\ task_pc' = [task_pc EXCEPT !["job"] = "call"]
            /\ digest_result' = [digest_result EXCEPT !["job"] = NoDigestResult]
    /\ UNCHANGED <<parser_vars, aside_vars, emails_per_run, run_log, daily_view, store_vars,
                   last_uid, uids, pos, max_uid_processed, claim_map, other_items, failed,
                   claim_deltas, other_delta, stats_row, claim_groups>>

\* run_digest from its first line to the first email of the loop
RunBegin(t) ==
    /\ task_pc[t] = "call"
    /\ LoopFreeFor(t)
    /\ \E reply \in SearchReplies(IF /\ folder_uidvalidity # <<>>
                                     /\ kv_uidvalidity # <<>>
                                     /\ folder_uidvalidity # kv_uidvalidity
                                  THEN 0
                                  ELSE kv_last_uid) :
        LET start == IF /\ folder_uidvalidity # <<>>
                        /\ kv_uidvalidity # <<>>
                        /\ folder_uidvalidity # kv_uidvalidity
                     THEN 0
                     ELSE kv_last_uid
            found == fetch_uids_since(reply, emails_per_run)
        IN  /\ last_uid' = [last_uid EXCEPT ![t] = start]
            /\ uids' = [uids EXCEPT ![t] = found]
            /\ pos' = [pos EXCEPT ![t] = 1]
            /\ max_uid_processed' = [max_uid_processed EXCEPT ![t] = start]
            /\ IF found = <<>>
               THEN /\ task_pc' = [task_pc EXCEPT ![t] = "done"]
                    /\ digest_result' = [digest_result EXCEPT ![t] =
                                            [NoDigestResult EXCEPT !.status = "empty"]]
                    /\ \E last_hour \in BOOLEAN :
                           owner_messages' = JobReport(t, "empty", last_hour)
               ELSE /\ task_pc' = [task_pc EXCEPT ![t] = "loop"]
                    /\ UNCHANGED <<digest_result, owner_messages>>
    /\ kv_uidvalidity' = IF folder_uidvalidity # <<>> THEN folder_uidvalidity ELSE kv_uidvalidity
    /\ claim_map' = [claim_map EXCEPT ![t] = <<>>]
    /\ other_items' = [other_items EXCEPT ![t] = <<>>]
    /\ failed' = [failed EXCEPT ![t] = <<>>]
    /\ claim_deltas' = [claim_deltas EXCEPT ![t] = EmptyDict]
    /\ other_delta' = [other_delta EXCEPT ![t] = 0]
    /\ claim_groups' = [claim_groups EXCEPT ![t] = <<>>]
    /\ UNCHANGED <<parser_vars, aside_vars, emails_per_run, run_log, daily_view, today,
                   kv_last_uid, kv_daily_stats, kv_paused, mailbox, folder_uidvalidity,
                   delta_log, stats_row>>

\* faulty variant: an email whose summarization failed does not move the cursor
Advance_SummarizedOnly(max_uid, uid, summarized) ==
    IF summarized /\ uid > max_uid THEN uid ELSE max_uid

\* if uid > max_uid_processed: max_uid_processed = uid, after the try
\* statement, whether summarize_email returned or raised
Advance(max_uid, uid, summarized) == IF uid > max_uid THEN uid ELSE max_uid

\* one turn of "for uid in uids"; summarize_email returns or raises
LoopStep(t) ==
    /\ task_pc[t] = "loop"
    /\ LoopFreeFor(t)
    /\ pos[t] <= Len(uids[t])
    /\ \E summarized \in BOOLEAN :
        LET uid == uids[t][pos[t]]
            subject == mailbox[uid]
            claim_id == _extract_claim(subject)
            item == [uid |-> uid, subject |-> subject, claim_id |-> claim_id]
        IN  /\ IF claim_id # <<>>
               THEN /\ claim_deltas' =
                           [claim_deltas EXCEPT ![t] =
                               DictUpdate(@, [c \in {claim_id} |-> DictGet(@, claim_id, 0) + 1])]
                    /\ UNCHANGED other_delta
               ELSE /\ other_delta' = [other_delta EXCEPT ![t] = @ + 1]
                    /\ UNCHANGED claim_deltas
            /\ IF summarized
               THEN IF claim_id # <<>>
                    THEN /\ claim_map' = [claim_map EXCEPT ![t] = AppendToClaim(@, item)]
                         /\ UNCHANGED <<other_items, failed>>
                    ELSE /\ other_items' = [other_items EXCEPT ![t] = Append(@, item)]
                         /\ UNCHANGED <<claim_map, failed>>
               ELSE /\ failed' = [failed EXCEPT ![t] =
                                     Append(@, [uid |-> uid, subject |-> subject])]
                    /\ UNCHANGED <<claim_map, other_items>>
            /\ max_uid_processed' =
                   [max_uid_processed EXCEPT ![t] = Advance(@, uid, summarized)]
    /\ pos' = [pos EXCEPT ![t] = @ + 1]
    /\ UNCHANGED <<parser_vars, aside_vars, service_vars, daily_view, store_vars, task_pc,
                   last_uid, uids, stats_row, claim_groups, digest_result>>

\* after the loop: set_last_uid, then add_daily_stats up to its SELECT
Persist(t) ==
    /\ task_pc[t] = "loop"
    /\ LoopFreeFor(t)
    /\ pos[t] > Len(uids[t])
    /\ kv_last_uid' = max_uid_processed[t]
    /\ stats_row' = [stats_row EXCEPT ![t] = [date_key |-> today, row |-> kv_daily_stats]]
    /\ task_pc' = [task_pc EXCEPT ![t] = "stats"]
    /\ run_log' = [run_log EXCEPT
                       !.summarized = @ \cup {<<kv_uidvalidity, uids[t][i]>> : i \in 1..Len(uids[t])},
                       !.failed = @ \cup {<<kv_uidvalidity, failed[t][i].uid>> :
                                              i \in 1..Len(failed[t])}]
    /\ UNCHANGED <<parser_vars, aside_vars, emails_per_run, owner_messages, daily_view, today,
                   kv_uidvalidity, kv_daily_stats, kv_paused, mailbox,
                   folder_uidvalidity, delta_log, last_uid, uids, pos, max_uid_processed,
                   claim_map, other_items, failed, claim_deltas, other_delta, claim_groups,
                   digest_result>>

\* the parameters of build_digest, and the keywords run_digest calls it with
build_digest_parameters ==
    {"client", "model", "claim_groups", "other_items", "failed", "max_output_tokens"}

build_digest_keywords ==
    {"client", "model", "summary_text", "claim_groups", "other_items", "failed",
     "max_output_tokens"}

\* faulty variant: add_daily_stats is given the number of emails summarized
CountedEmails_Summarized(t) == Len(uids[t]) - Len(failed[t])

\* total_delta=len(uids)
CountedEmails(t) == Len(uids[t])

\* add_daily_stats from the SELECT to the commit, then the rest of
\* run_digest: the groups, the call of build_digest, the return.  An
\* exception of add_daily_stats leaves run_digest; so does the TypeError of
\* a call with a keyword that build_digest does not have.
Finish(t) ==
    /\ task_pc[t] = "stats"
    /\ LoopFreeFor(t)
    /\ LET written == add_daily_stats(stats_row[t].row, stats_row[t].date_key, CountedEmails(t),
                                      other_delta[t], claim_deltas[t])
           groups == BuildClaimGroups(claim_map[t])
           others == SortedByUid(other_items[t])
       IN  /\ delta_log' =
                  [total |-> delta_log.total + CountedEmails(t),
                   other |-> delta_log.other + other_delta[t],
                   claims |-> [c \in (DOMAIN delta_log.claims) \cup (DOMAIN claim_deltas[t]) |->
                                  DictGet(delta_log.claims, c, 0) + DictGet(claim_deltas[t], c, 0)]]
           /\ run_log' = [run_log EXCEPT !.by_date =
                              DictUpdate(@, [d \in {stats_row[t].date_key} |->
                                                DictGet(@, d, 0) + Len(uids[t])])]
           /\ IF written.raised
              THEN /\ digest_result' = [digest_result EXCEPT ![t] =
                                           [NoDigestResult EXCEPT !.status = "raised"]]
                   /\ UNCHANGED <<kv_daily_stats, claim_groups, other_items>>
              ELSE /\ kv_daily_stats' = written.row
                   /\ claim_groups' = [claim_groups EXCEPT ![t] = groups]
                   /\ other_items' = [other_items EXCEPT ![t] = others]
                   /\ digest_result' =
                          [digest_result EXCEPT ![t] =
                              IF build_digest_keywords \subseteq build_digest_parameters
                              THEN [status |-> "ok",
                                    total |-> GroupedCount(groups) + Len(others) + Len(failed[t]),
                                    failed |-> Len(failed[t])]
                              ELSE [NoDigestResult EXCEPT !.status = "build_raised"]]
    /\ \E last_hour \in BOOLEAN :
           owner_messages' = JobReport(t, digest_result'[t].status, last_hour)
    /\ task_pc' = [task_pc EXCEPT ![t] = "done"]
    /\ UNCHANGED <<parser_vars, aside_vars, emails_per_run, daily_view, today, kv_last_uid,
                   kv_uidvalidity, kv_paused, mailbox, folder_uidvalidity, last_uid, uids, pos,
                   max_uid_processed, claim_map, failed, claim_deltas, other_delta, stats_row>>

(***************************************************************************)
(* One coroutine, the scheduled job, running the digest over a folder      *)
(***************************************************************************)
\* most messages in a generated folder
MaxMail == 3

SubjAB == <<"R", "e", ":", " ", "1", "2", "3", "4", "5", "-", "A", "B", " ", "u", "b", "y", "t", "o", "k">>
Subj67890 == <<"6", "7", "8", "9", "0", " ", "a", "k", "t">>
SubjFourDigits == <<"s", "ch", "e", "t", " ", "1", "2", "3", "4">>

SubjectPool == {SubjAB, Subj67890, SubjFourDigits}

\* two emails of one claim, one of another, two without a claim
ScenarioMailbox ==
    <<SubjAB, SubjFourDigits, Subj67890, SubjAB, <<"1", "2", "3", "4", "5", "6">> >>

InitDigest ==
    /\ ParserAtRest
    /\ StoreEmpty
    /\ mailbox \in SeqsUpTo(SubjectPool, MaxMail) \cup {ScenarioMailbox}
    /\ RunsAtRest
    /\ ServiceAtRest
    /\ AsideAtRest

NextDigest ==
    \/ JobFires
    \/ \E t \in Tasks : RunBegin(t)
    \/ \E t \in Tasks : LoopStep(t)
    \/ \E t \in Tasks : Persist(t)
    \/ \E t \in Tasks : Finish(t)

SpecDigest == InitDigest /\ [][NextDigest]_vars

(***************************************************************************)
(* The digest over a table whose daily_stats row holds any text, with the  *)
(* date changing and the statistics being read back                        *)
(***************************************************************************)
\* most messages in the folder when the stored statistics vary
MaxStatsMail == 2

\* a stored object with the four fields
StatsObject(date, total, other, claims) ==
    [k \in {"date", "total", "other", "claims"} |->
        IF k = "date" THEN date
        ELSE IF k = "total" THEN total
        ELSE IF k = "other" THEN other
        ELSE claims]

\* the texts the row may hold: none, empty, not JSON, JSON that is not an
\* object, objects without some fields, with fields of another type, and
\* accumulators written by add_daily_stats
StoredStatsPool ==
    LET id67890 == _extract_claim(Subj67890)
        idAB == _extract_claim(SubjAB)
        word == JStr(<<"a", "b", "c">>)
        one == [c \in {id67890} |-> JInt(2)]
        two == [c \in {id67890, idAB} |-> IF c = idAB THEN JInt(1) ELSE JInt(2)]
        good == StatsObject(JStr(Day1), JInt(3), JInt(1), JObj(one))
        only(S) == [k \in S |-> good[k]]
    IN  {NoRow,
         [kind |-> "empty", val |-> JNull],
         [kind |-> "garbage", val |-> JNull],
         JsonRow(JNull), JsonRow(JInt(5)), JsonRow(word), JsonRow(JList),
         JsonRow(JObj(EmptyDict)),
         JsonRow(JObj(only({"date"}))),
         JsonRow(JObj(only({"total", "other", "claims"}))),
         JsonRow(JObj(good)),
         JsonRow(JObj(StatsObject(JStr(Day1), JInt(3), JInt(0), JObj(two)))),
         JsonRow(JObj(StatsObject(JStr(Day1), JInt(0), JInt(0), JObj(EmptyDict)))),
         JsonRow(JObj(StatsObject(JInt(5), JInt(3), JInt(1), JObj(one)))),
         JsonRow(JObj(StatsObject(JStr(Day1), word, JInt(1), JObj(one)))),
         JsonRow(JObj(StatsObject(JStr(Day1), JStr(<<" ", "7">>), JInt(1), JObj(one)))),
         JsonRow(JObj(StatsObject(JStr(Day1), JInt(3), JNull, JObj(one)))),
         JsonRow(JObj(StatsObject(JStr(Day1), JInt(3), JInt(1), JList))),
         JsonRow(JObj(StatsObject(JStr(Day1), JInt(3), JInt(1), JNull))),
         JsonRow(JObj(StatsObject(JStr(Day1), JInt(3), JInt(1),
                                  JObj([c \in {id67890} |-> word]))))}

InitStats ==
    /\ ParserAtRest
    /\ today = Day1
    /\ kv_last_uid = 0
    /\ kv_uidvalidity = <<>>
    /\ kv_daily_stats \in StoredStatsPool
    /\ kv_paused = <<>>
    /\ folder_uidvalidity = Validity1
    /\ delta_log = NoDeltas
    /\ mailbox \in SeqsUpTo({SubjAB, SubjFourDigits}, MaxStatsMail)
    /\ RunsAtRest
    /\ ServiceAtRest
    /\ AsideAtRest

\* the local date changes
Midnight ==
    /\ today = Day1
    /\ today' = Day2
    /\ UNCHANGED <<parser_vars, kv_last_uid, kv_uidvalidity, kv_daily_stats, kv_paused, mailbox,
                   folder_uidvalidity, delta_log, run_vars, aside_vars, service_vars>>

\* build_daily_stats_text: get_today_daily_stats reads the row; the event
\* loop runs it between two awaits
ReadDailyStats ==
    /\ \A u \in Tasks : LoopFreeFor(u)
    /\ LET got == get_today_daily_stats(kv_daily_stats, today)
       IN  daily_view' = [called |-> TRUE, date_key |-> today, row |-> kv_daily_stats,
                          raised |-> got.raised, value |-> got.value]
    /\ UNCHANGED <<parser_vars, aside_vars, service_vars, store_vars, task_pc, last_uid, uids, pos, max_uid_processed,
                   claim_map, other_items, failed, claim_deltas, other_delta, stats_row,
                   claim_groups, digest_result>>

NextStats ==
    \/ JobFires
    \/ \E t \in Tasks : RunBegin(t)
    \/ \E t \in Tasks : LoopStep(t)
    \/ \E t \in Tasks : Persist(t)
    \/ \E t \in Tasks : Finish(t)
    \/ Midnight
    \/ ReadDailyStats

SpecStats == InitStats /\ [][NextStats]_vars

(***************************************************************************)
(* The scheduled job and the /digest_now handler on one event loop, with   *)
(* mail arriving                                                           *)
(***************************************************************************)
\* most messages delivered to the folder
MaxRunMail == 2

\* cmd_digest_now up to its first await, the reply that announces the digest
CmdDigestNow ==
    /\ task_pc["cmd"] \in {"idle", "done"}
    /\ LoopFreeFor("cmd")
    /\ \E allowed \in BOOLEAN :
        IF allowed
        THEN /\ task_pc' = [task_pc EXCEPT !["cmd"] = "replying"]
             /\ digest_result' = [digest_result EXCEPT !["cmd"] = NoDigestResult]
        ELSE /\ task_pc' = [task_pc EXCEPT !["cmd"] = "done"]
             /\ digest_result' = [digest_result EXCEPT !["cmd"] =
                                     [NoDigestResult EXCEPT !.status = "refused"]]
    /\ UNCHANGED <<parser_vars, aside_vars, service_vars, daily_view, store_vars, last_uid, uids, pos, max_uid_processed,
                   claim_map, other_items, failed, claim_deltas, other_delta, stats_row,
                   claim_groups>>

\* the reply is sent: the event loop resumes the handler, which calls run_digest
CmdResumes ==
    /\ task_pc["cmd"] = "replying"
    /\ LoopFreeFor("cmd")
    /\ task_pc' = [task_pc EXCEPT !["cmd"] = "call"]
    /\ UNCHANGED <<parser_vars, aside_vars, service_vars, daily_view, store_vars, last_uid, uids, pos, max_uid_processed,
                   claim_map, other_items, failed, claim_deltas, other_delta, stats_row,
                   claim_groups, digest_result>>

\* a message arrives in the folder and gets the next UID
Deliver ==
    /\ Len(mailbox) < MaxRunMail
    /\ \E subject \in {SubjAB, SubjFourDigits} : mailbox' = Append(mailbox, subject)
    /\ UNCHANGED <<parser_vars, today, kv_last_uid, kv_uidvalidity, kv_daily_stats, kv_paused,
                   folder_uidvalidity, delta_log, run_vars, aside_vars, service_vars>>

InitRuns == ParserAtRest /\ BeyondParserAtRest

NextRuns ==
    \/ JobFires
    \/ CmdDigestNow
    \/ CmdResumes
    \/ Deliver
    \/ \E t \in Tasks : RunBegin(t)
    \/ \E t \in Tasks : LoopStep(t)
    \/ \E t \in Tasks : Persist(t)
    \/ \E t \in Tasks : Finish(t)

SpecRuns == InitRuns /\ [][NextRuns]_vars

(***************************************************************************)
(* The service over days: the scheduled job alone, a mailbox that receives *)
(* emails, exceptions of the mailbox, the commands /pause and /resume; and *)
(* the service over a folder that is deleted and created again once.       *)
(***************************************************************************)
\* the UIDVALIDITY of the folder after it was created again
Validity2 == <<"1", "8">>

\* MAX_EMAILS_PER_RUN is not set, or it is set to "1"
EmailsPerRun == {1, max_emails_per_run}

\* select_folder raises, or it returns and the search raises: run_digest is
\* left before its loop, after set_uidvalidity in the second case
MailboxRaises(t) ==
    /\ task_pc[t] = "call"
    /\ LoopFreeFor(t)
    /\ \E selected \in BOOLEAN :
           kv_uidvalidity' = IF selected /\ folder_uidvalidity # <<>>
                             THEN folder_uidvalidity
                             ELSE kv_uidvalidity
    /\ task_pc' = [task_pc EXCEPT ![t] = "done"]
    /\ digest_result' = [digest_result EXCEPT ![t] =
                            [NoDigestResult EXCEPT !.status = "mailbox_raised"]]
    /\ owner_messages' = JobReport(t, "mailbox_raised", FALSE)
    /\ UNCHANGED <<parser_vars, aside_vars, emails_per_run, run_log, daily_view, today,
                   kv_last_uid, kv_daily_stats, kv_paused, mailbox, folder_uidvalidity,
                   delta_log, last_uid, uids, pos, max_uid_processed, claim_map, other_items,
                   failed, claim_deltas, other_delta, stats_row, claim_groups>>

\* fetch_rfc822 or parse_email raises for the email of this turn: run_digest
\* is left inside its loop
EmailRaises(t) ==
    /\ task_pc[t] = "loop"
    /\ LoopFreeFor(t)
    /\ pos[t] <= Len(uids[t])
    /\ task_pc' = [task_pc EXCEPT ![t] = "done"]
    /\ digest_result' = [digest_result EXCEPT ![t] =
                            [NoDigestResult EXCEPT !.status = "mailbox_raised"]]
    /\ owner_messages' = JobReport(t, "mailbox_raised", FALSE)
    /\ run_log' = [run_log EXCEPT !.aborted =
                       @ \cup {<<kv_uidvalidity, uids[t][i]>> : i \in 1..(pos[t] - 1)}]
    /\ UNCHANGED <<parser_vars, aside_vars, emails_per_run, daily_view, store_vars, last_uid,
                   uids, pos, max_uid_processed, claim_map, other_items, failed, claim_deltas,
                   other_delta, stats_row, claim_groups>>

\* /pause from a chat; the handler returns at once for a chat that is not
\* the owner's
cmd_pause ==
    /\ \A u \in Tasks : LoopFreeFor(u)
    /\ \E allowed \in BOOLEAN :
           kv_paused' = IF allowed THEN set_paused(TRUE) ELSE kv_paused
    /\ UNCHANGED <<parser_vars, today, kv_last_uid, kv_uidvalidity, kv_daily_stats, mailbox,
                   folder_uidvalidity, delta_log, run_vars, aside_vars, service_vars>>

\* /resume from a chat
cmd_resume ==
    /\ \A u \in Tasks : LoopFreeFor(u)
    /\ \E allowed \in BOOLEAN :
           kv_paused' = IF allowed THEN set_paused(FALSE) ELSE kv_paused
    /\ UNCHANGED <<parser_vars, today, kv_last_uid, kv_uidvalidity, kv_daily_stats, mailbox,
                   folder_uidvalidity, delta_log, run_vars, aside_vars, service_vars>>

\* the folder is deleted and created again: a new UIDVALIDITY, no email
FolderRecreated ==
    /\ \A u \in Tasks : LoopFreeFor(u)
    /\ folder_uidvalidity = Validity1
    /\ folder_uidvalidity' = Validity2
    /\ mailbox' = <<>>
    /\ UNCHANGED <<parser_vars, today, kv_last_uid, kv_uidvalidity, kv_daily_stats, kv_paused,
                   delta_log, run_vars, aside_vars, service_vars>>

InitService ==
    /\ ParserAtRest
    /\ StoreEmpty
    /\ mailbox = <<>>
    /\ RunsAtRest
    /\ AsideAtRest
    /\ emails_per_run \in EmailsPerRun
    /\ owner_messages = 0
    /\ run_log = NoRunLog

NextService ==
    \/ JobFires
    \/ RunBegin("job")
    \/ LoopStep("job")
    \/ Persist("job")
    \/ Finish("job")
    \/ MailboxRaises("job")
    \/ EmailRaises("job")
    \/ cmd_pause
    \/ cmd_resume
    \/ Deliver
    \/ Midnight

SpecService == InitService /\ [][NextService]_vars

\* the service with the default configuration over a folder that is created
\* again
InitFolder == InitService /\ emails_per_run = max_emails_per_run

NextFolder ==
    \/ JobFires
    \/ RunBegin("job")
    \/ LoopStep("job")
    \/ Persist("job")
    \/ Finish("job")
    \/ MailboxRaises("job")
    \/ Deliver
    \/ FolderRecreated

SpecFolder == InitFolder /\ [][NextFolder]_vars

(***************************************************************************)
(* The digest of a folder of one email, over generated subjects            *)
(***************************************************************************)
\* most pieces in a generated subject
MaxPieces == 5

\* what subjects are made of: a 5-digit run, one more digit, a chunk of one
\* letter, four more letters, a hyphen
ClaimPieces ==
    {<<"1", "2", "3", "4", "5">>, <<"6">>, <<"-", "A">>, <<"B", "yo", "g", "m">>, <<"-">>}

RECURSIVE Flatten(_)
Flatten(pieces) == IF pieces = <<>> THEN <<>> ELSE pieces[1] \o Flatten(Tail(pieces))

InitClaim ==
    /\ ParserAtRest
    /\ StoreEmpty
    /\ mailbox \in {<<Flatten(ps)>> : ps \in SeqsUpTo(ClaimPieces, MaxPieces)}
                       \cup {<<SubjFourDigits>>, <<SubjAB>>}
    /\ RunsAtRest
    /\ ServiceAtRest
    /\ AsideAtRest

SpecClaim == InitClaim /\ [][NextDigest]_vars


(***************************************************************************)
(* The hidden links of a Telegram message: app/city_extract.py,            *)
(* extract_inline_hh_links_from_entities, and its caller in                *)
(* app/telegram_jobs.py.  "FIRE" is a code point above U+FFFF.             *)
(***************************************************************************)
\* faulty variant: every code point counts as one UTF-16 unit
Utf16Width_One(ch) == 1

\* 2 if ord(ch) > 0xFFFF else 1
Utf16Width(ch) == IF ch = "FIRE" THEN 2 ELSE 1

\* utf16_pos when the loop is at index i, or, for i = len(text), after it
RECURSIVE Utf16Pos(_, _)
Utf16Pos(str, i) == IF i = 0 THEN 0 ELSE Utf16Pos(str, i - 1) + Utf16Width(str[i])

\* utf16_unit_to_index.get(unit), None being -1
Utf16Index(str, unit) ==
    IF \E i \in 0..Len(str) : Utf16Pos(str, i) = unit
    THEN CHOOSE i \in 0..Len(str) : Utf16Pos(str, i) = unit
    ELSE -1

_utf16_slice(source, offset_utf16, length_utf16) ==
    LET start == Utf16Index(source, offset_utf16)
        end == Utf16Index(source, offset_utf16 + length_utf16)
    IN  IF start = -1 \/ end = -1 THEN <<>> ELSE SubSeq(source, start + 1, end)

\* one turn of "for entity in entities": the key the span is stored under,
\* or nothing when the turn ends with continue; getattr with a default is
\* the lookup of an attribute that may be absent
EntityKey(str, entity) ==
    LET url == DictGet(entity, "url", <<>>)
        offset == DictGet(entity, "offset", -1)
        length == DictGet(entity, "length", 0)
    IN  IF LinkSearch(url) = <<>> THEN <<>>
        ELSE IF offset < 0 \/ length <= 0 THEN <<>>
        ELSE _normalize_wording(Strip(_utf16_slice(str, offset, length)))

\* faulty variant: a span that is passed over empties the map
AddEntity_Abort(links, str, entity) ==
    IF EntityKey(str, entity) = <<>>
    THEN EmptyDict
    ELSE DictUpdate(links, [k \in {EntityKey(str, entity)} |-> entity["url"]])

\* links_by_title after one more entity
AddEntity(links, str, entity) ==
    IF EntityKey(str, entity) = <<>>
    THEN links
    ELSE DictUpdate(links, [k \in {EntityKey(str, entity)} |-> entity["url"]])

RECURSIVE LinksByTitle(_, _)
LinksByTitle(str, spans) ==
    IF spans = <<>> THEN EmptyDict
    ELSE AddEntity(LinksByTitle(str, SubSeq(spans, 1, Len(spans) - 1)), str, spans[Len(spans)])

extract_inline_hh_links_from_entities(str, spans) ==
    IF str = <<>> \/ spans = <<>> THEN EmptyDict ELSE LinksByTitle(str, spans)

\* most spans of a message
MaxEntities == 2

\* a span with the three attributes
Entity(url, offset, length) ==
    [k \in {"url", "offset", "length"} |->
        IF k = "url" THEN url ELSE IF k = "offset" THEN offset ELSE length]

\* the messages: a numbered line alone, the same after a pictograph, and a
\* listing whose entry is followed by a link line
EntityTexts ==
    {<<"1", ".", " ", "U", "r", "i", "s", "t">>,
     <<"FIRE", " ", "1", ".", " ", "U", "r", "i", "s", "t">>,
     JoinLines(<<HdrSpb, EntryUrist, LinkLine1>>)}

\* the spans: over the title in each of the messages, over a space; the same
\* span with another link; spans that start inside the pictograph, end
\* beyond the text, have no length, a negative offset, a link that is no
\* vacancy, or no offset at all
EntityPool ==
    LET title == Len(HdrSpb) + 4
        other == <<"h", "t", "t", "p", "s", ":", "/", "/", "t", ".", "m", "e", "/", "s">>
        full == Entity(Url9, 3, 5)
    IN  {full, Entity(Url9, 6, 5), Entity(Url9, title, 5), Entity(Url8, 3, 5),
         Entity(Url9, 2, 1), Entity(Url9, 1, 5), Entity(Url9, 3, 100), Entity(Url9, 3, 0),
         Entity(Url9, -1, 5), Entity(other, title, 5),
         [k \in {"url", "length"} |-> full[k]]}

InitEntities ==
    /\ text \in EntityTexts
    /\ banned_keywords = <<>>
    /\ inline_title_links = NoInlineLinks
    /\ target_city = DefaultTargetCity
    /\ pc = "message"
    /\ block = <<>>
    /\ lines = <<>>
    /\ idx = 1
    /\ current_title = <<>>
    /\ current_is_remote = FALSE
    /\ detected_items = 0
    /\ selected_items = <<>>
    /\ spb_result = NoResult
    /\ remote_result = NoResult
    /\ StoreEmpty
    /\ mailbox = <<>>
    /\ RunsAtRest
    /\ ServiceAtRest
    /\ entities \in SeqsUpTo(EntityPool, MaxEntities)
    /\ fetch_pc = "start"
    /\ fetch_env = [set |-> FALSE, text |-> <<>>]
    /\ fetch_cfg = 0
    /\ fetch_limit = 0

\* run_spb_jobs_digest, for one message: the links of its spans, kept for
\* the parse that follows
ExtractInlineLinks ==
    /\ pc = "message"
    /\ inline_title_links' = extract_inline_hh_links_from_entities(text, entities)
    /\ pc' = "idle"
    /\ UNCHANGED <<beyond_parser, text, banned_keywords, target_city, block, lines, idx,
                   current_title, current_is_remote, detected_items, selected_items, spb_result,
                   remote_result>>

NextEntities ==
    \/ ExtractInlineLinks
    \/ CallParseSpb
    \/ SpbScanLine
    \/ ReturnSpb

SpecEntities == InitEntities /\ [][NextEntities]_vars

(***************************************************************************)
(* The number of messages asked of a Telegram source.  load_config reads   *)
(* TELEGRAM_SOURCE_FETCH_LIMIT from the environment, the digests of the    *)
(* sources pass the configured number to get_messages.                     *)
(***************************************************************************)
\* longest value of the environment variable
MaxEnvLen == 3

EnvTokens == {"-", "0", "1", "8", "b", " "}

\* the default of the variable, as text
default_fetch_limit == <<"8", "0">>

\* _get_env: the value of the variable, the default when it is not set
_get_env(env, default) == IF env.set THEN env.text ELSE default

InitFetch ==
    /\ ParserAtRest
    /\ StoreEmpty
    /\ mailbox = <<>>
    /\ RunsAtRest
    /\ ServiceAtRest
    /\ entities = <<>>
    /\ fetch_pc = "start"
    /\ fetch_env \in {[set |-> FALSE, text |-> <<>>]} \cup
                     {[set |-> TRUE, text |-> v] : v \in SeqsUpTo(EnvTokens, MaxEnvLen)}
    /\ fetch_cfg = 0
    /\ fetch_limit = 0

\* load_config: int() of the text; a text that is no integer raises
LoadConfig ==
    /\ fetch_pc = "start"
    /\ LET r == IntOf(JStr(_get_env(fetch_env, default_fetch_limit)))
       IN  IF r.ok
           THEN fetch_pc' = "loaded" /\ fetch_cfg' = r.v
           ELSE fetch_pc' = "failed" /\ UNCHANGED fetch_cfg
    /\ UNCHANGED <<parser_vars, store_vars, run_vars, service_vars, entities, fetch_env, fetch_limit>>

\* run_spb_jobs_digest: nothing is fetched when the source is disabled,
\* otherwise get_messages is given the configured number
FetchMessages ==
    /\ fetch_pc = "loaded"
    /\ \E telegram_user_enabled \in BOOLEAN :
           IF telegram_user_enabled
           THEN fetch_pc' = "fetched" /\ fetch_limit' = fetch_cfg
           ELSE fetch_pc' = "disabled" /\ UNCHANGED fetch_limit
    /\ UNCHANGED <<parser_vars, store_vars, run_vars, service_vars, entities, fetch_env, fetch_cfg>>

NextFetch ==
    \/ LoadConfig
    \/ FetchMessages

SpecFetch == InitFetch /\ [][NextFetch]_vars

(***************************************************************************)
(* Reading of a message that the properties are stated against.  tl is     *)
(* the list of the lines of the message, each stripped.                    *)
(***************************************************************************)
TL == LET ls == SplitLines(text) IN [i \in 1..Len(ls) |-> Strip(ls[i])]

\* the line holds a remote-work keyword
LineIsRemote(line) ==
    \E k \in REMOTE_WORK_KEYWORDS : Contains(_normalize_wording(line), FoldYo(k))

LineTitle(line) == TitleOf(RawTitle(line))

LineInline(line) == InlineLink(inline_title_links, _normalize_wording(LineTitle(line)))

IsLinkLine(line) == ~IsNumberedLine(line) /\ LinkSearch(line) # <<>>

IsSpbHeader(line) ==
    _is_city_header_line(line) /\ _extract_city_from_header(line) \in SPB_ALIASES

IsForeignHeader(line) ==
    _is_city_header_line(line) /\ _extract_city_from_header(line) \notin SPB_ALIASES

\* line i lies after the first Saint Petersburg header, with no header of
\* another city in between or on it
InSpbSection(tl, i) ==
    \E h \in 1..(i - 1) :
        /\ IsSpbHeader(tl[h])
        /\ \A k \in 1..(h - 1) : ~IsSpbHeader(tl[k])
        /\ \A k \in (h + 1)..i : ~IsForeignHeader(tl[k])

\* the lines a parse scans: the section, or the whole message
InScope(tl, j, sectionOnly) == sectionOnly => InSpbSection(tl, j)

\* the link lines that can complete the entry of numbered line i: the next
\* lines of the scope up to the next numbered line
FollowingLinks(tl, i, sectionOnly) ==
    {j \in (i + 1)..Len(tl) :
        /\ \A k \in (i + 1)..j : ~IsNumberedLine(tl[k])
        /\ IsLinkLine(tl[j])
        /\ InScope(tl, j, sectionOnly)}

\* the link resolved for the entry of numbered line i, <<>> for none
ResolvedLink(tl, i, sectionOnly, inlineCounts) ==
    IF inlineCounts /\ LineInline(tl[i]) # <<>> THEN LineInline(tl[i])
    ELSE LET F == FollowingLinks(tl, i, sectionOnly)
         IN  IF F = {} THEN <<>>
             ELSE LinkSearch(tl[CHOOSE j \in F : \A h \in F : j <= h])

\* numbered lines of the section that are complete, not remote
SpbEntries(tl) ==
    {i \in 1..Len(tl) :
        /\ IsNumberedLine(tl[i])
        /\ ~LineIsRemote(tl[i])
        /\ InSpbSection(tl, i)
        /\ ResolvedLink(tl, i, TRUE, TRUE) # <<>>}

\* titles and links of the entries of E that pass the banned-keyword list,
\* in message order
RECURSIVE ItemsFrom(_, _, _, _, _)
ItemsFrom(tl, n, E, sectionOnly, inlineCounts) ==
    IF n = 0 THEN <<>>
    ELSE LET rest == ItemsFrom(tl, n - 1, E, sectionOnly, inlineCounts)
         IN  IF n \in E /\ ~_is_banned_title(LineTitle(tl[n]), banned_keywords)
             THEN Append(rest, [title |-> LineTitle(tl[n]),
                                link |-> ResolvedLink(tl, n, sectionOnly, inlineCounts)])
             ELSE rest

\* the state right after a parser returned
SpbReturned == pc = "spb_done"
RemoteReturned == pc = "done"

(***************************************************************************)
(* C1: in both parsers the number of selected items never exceeds          *)
(* detected_items, after every scanned line and in the returned results,   *)
(* and every append to selected_items comes with an increment of           *)
(* detected_items.                                                         *)
(***************************************************************************)
C1_SelectedAtMostDetected ==
    /\ [](/\ Len(selected_items) <= detected_items
          /\ SpbReturned => Len(spb_result.selected_items) <= spb_result.detected_items
          /\ RemoteReturned =>
                Len(remote_result.selected_items) <= remote_result.detected_items)
    /\ [][(pc' = pc /\ Len(selected_items') > Len(selected_items)) =>
            /\ Len(selected_items') = Len(selected_items) + 1
            /\ detected_items' = detected_items + 1]_vars

\* a parse has both selected an entry and detected one it did not select
C1_Witness ==
    /\ pc \in {"spb", "remote"}
    /\ Len(selected_items) >= 1
    /\ detected_items > Len(selected_items)

(***************************************************************************)
(* C2: parse_spb_vacancies counts exactly the complete entries that lie    *)
(* between the Saint Petersburg header and the next header of another      *)
(* city; for Moscow (1 entry), Saint Petersburg (3 entries, one banned)    *)
(* and a third city (1 entry) the block is the 3 Saint Petersburg entries  *)
(* and the result is detected = 3, selected = 2.                           *)
(***************************************************************************)
C2_SectionScoped ==
    /\ SpbReturned =>
          LET tl == TL
              E == SpbEntries(tl)
          IN  /\ spb_result.detected_items = Cardinality(E)
              /\ spb_result.selected_items = ItemsFrom(tl, Len(tl), E, TRUE, TRUE)
    /\ (SpbReturned /\ text = JoinLines(ScenarioThreeCities)) =>
          block = JoinLines(SubSeq(ScenarioThreeCities, 5, 13))
    /\ (/\ SpbReturned
        /\ text = JoinLines(ScenarioThreeCities)
        /\ banned_keywords = DEFAULT_BANNED_KEYWORDS
        /\ inline_title_links = NoInlineLinks) =>
          /\ spb_result.detected_items = 3
          /\ Len(spb_result.selected_items) = 2

\* the three-city message has been parsed
C2_Witness ==
    /\ SpbReturned
    /\ text = JoinLines(ScenarioThreeCities)
    /\ banned_keywords = DEFAULT_BANNED_KEYWORDS
    /\ inline_title_links = NoInlineLinks
    /\ spb_result.detected_items = 3

(***************************************************************************)
(* C3: in parse_spb_vacancies the scan of a line that belongs to an entry  *)
(* whose numbered line holds a remote-work keyword (the numbered line      *)
(* itself, or a line after it up to the next numbered line) changes        *)
(* neither detected_items nor selected_items.                              *)
(***************************************************************************)
\* the numbered line the scan position belongs to, 0 for none
EntryLineAt(n) ==
    LET N == {k \in 1..n : k <= Len(lines) /\ IsNumberedLine(lines[k])}
    IN  IF N = {} THEN 0 ELSE CHOOSE k \in N : \A h \in N : h <= k

C3_RemoteExcludedInSection ==
    [][(/\ pc = "spb"
        /\ pc' = "spb"
        /\ EntryLineAt(idx) # 0
        /\ LineIsRemote(lines[EntryLineAt(idx)])) =>
            UNCHANGED <<detected_items, selected_items>>]_vars

\* the section-scoped parse has scanned a remote entry that has a link,
\* inline or on the following line
C3_Witness ==
    /\ pc = "spb"
    /\ idx >= 4
    /\ IsNumberedLine(lines[idx - 2])
    /\ LineIsRemote(lines[idx - 2])
    /\ LinkSearch(lines[idx - 1]) # <<>>
    /\ detected_items = 0

(***************************************************************************)
(* C4 as stated: with an empty banned list the items that                  *)
(* parse_remote_vacancies selects are exactly the remote-work entries of   *)
(* the Saint Petersburg section that parse_spb_vacancies excluded.         *)
(***************************************************************************)
\* complete remote entries of the section: the ones section-scoped mode
\* leaves out because of the remote-work keyword
SpbRemoteExcluded(tl) ==
    {i \in 1..Len(tl) :
        /\ IsNumberedLine(tl[i])
        /\ LineIsRemote(tl[i])
        /\ InSpbSection(tl, i)
        /\ ResolvedLink(tl, i, TRUE, TRUE) # <<>>}

\* complete remote entries of the whole message
RemoteEntries(tl) ==
    {i \in 1..Len(tl) :
        /\ IsNumberedLine(tl[i])
        /\ LineIsRemote(tl[i])
        /\ ResolvedLink(tl, i, FALSE, TRUE) # <<>>}

C4_Original ==
    (RemoteReturned /\ banned_keywords = <<>>) =>
        LET tl == TL
        IN  remote_result.selected_items
                = ItemsFrom(tl, Len(tl), SpbRemoteExcluded(tl), TRUE, TRUE)

(***************************************************************************)
(* C4 amended: with an empty banned list the items that                    *)
(* parse_remote_vacancies selects are exactly the complete remote-work     *)
(* entries of the whole message, in every section and outside any; among   *)
(* them, with the same link, is every remote-work entry that               *)
(* parse_spb_vacancies excluded in the Saint Petersburg section.           *)
(***************************************************************************)
C4_RemoteSelectsWholeMessage ==
    (RemoteReturned /\ banned_keywords = <<>>) =>
        LET tl == TL
            R == RemoteEntries(tl)
        IN  /\ remote_result.selected_items = ItemsFrom(tl, Len(tl), R, FALSE, TRUE)
            /\ \A i \in SpbRemoteExcluded(tl) :
                  \E n \in 1..Len(remote_result.selected_items) :
                      remote_result.selected_items[n] =
                          [title |-> LineTitle(tl[i]),
                           link |-> ResolvedLink(tl, i, TRUE, TRUE)]

\* a remote entry excluded in the section and one outside it were selected
C4_Witness ==
    /\ RemoteReturned
    /\ banned_keywords = <<>>
    /\ SpbRemoteExcluded(TL) # {}
    /\ Len(remote_result.selected_items) > Cardinality(SpbRemoteExcluded(TL))

(***************************************************************************)
(* C5: parse_remote_vacancies detects exactly the numbered lines that hold *)
(* a remote-work keyword and get a link (inline, or from the next link     *)
(* line before another numbered line), in any section or none; the scan    *)
(* of a line of an entry without the keyword changes neither               *)
(* detected_items nor selected_items.                                      *)
(***************************************************************************)
C5_RemoteDetectsRemoteOnly ==
    /\ [](RemoteReturned =>
            remote_result.detected_items = Cardinality(RemoteEntries(TL)))
    /\ [][(/\ pc = "remote"
           /\ pc' = "remote"
           /\ EntryLineAt(idx) # 0
           /\ ~LineIsRemote(lines[EntryLineAt(idx)])) =>
               UNCHANGED <<detected_items, selected_items>>]_vars

\* the whole-message parse counted a remote entry and passed over an entry
\* that has a link but no remote-work keyword
C5_Witness ==
    /\ RemoteReturned
    /\ remote_result.detected_items >= 1
    /\ \E i \in 1..Len(TL) :
          /\ IsNumberedLine(TL[i])
          /\ ~LineIsRemote(TL[i])
          /\ ResolvedLink(TL, i, FALSE, TRUE) # <<>>

(***************************************************************************)
(* C6: for a message without a header line of the target city (or of one  *)
(* of its aliases) extract_city_block returns the empty string, for        *)
(* Saint Petersburg, Moscow and Tver as the target, and                    *)
(* parse_spb_vacancies returns no items and detected_items = 0 without     *)
(* entering its loop.                                                      *)
(***************************************************************************)
AliasSetOf(target) ==
    IF _normalize_city(target) \in SPB_ALIASES
    THEN SPB_ALIASES
    ELSE {_normalize_city(target)}

IsHeaderFor(line, target) ==
    _is_city_header_line(line) /\ _extract_city_from_header(line) \in AliasSetOf(target)

HasHeaderFor(tl, target) == \E i \in 1..Len(tl) : IsHeaderFor(tl[i], target)

C6_AbsentSectionIsEmpty ==
    /\ pc = "spb" => HasHeaderFor(TL, DefaultTargetCity)
    /\ SpbReturned =>
          LET tl == TL
          IN  /\ \A t \in {HdrMoscow, HdrTver} :
                    ~HasHeaderFor(tl, t) => extract_city_block(text, t) = <<>>
              /\ ~HasHeaderFor(tl, DefaultTargetCity) =>
                    /\ block = <<>>
                    /\ spb_result = VacancyParseResult(<<>>, 0)

\* a message with an entry and its link, but no Saint Petersburg header,
\* has been parsed
C6_Witness ==
    /\ SpbReturned
    /\ ~HasHeaderFor(TL, DefaultTargetCity)
    /\ \E i \in 1..Len(TL) :
          IsNumberedLine(TL[i]) /\ ResolvedLink(TL, i, FALSE, TRUE) # <<>>
    /\ block = <<>>
    /\ spb_result.detected_items = 0

(***************************************************************************)
(* C7: a header with a count in parentheses opens and closes sections as   *)
(* the plain header of the same city does: replacing a plain header by its *)
(* counted form, or a counted header by its plain form, leaves the         *)
(* non-header lines of the block of extract_city_block unchanged; for      *)
(* "SPB (2):" followed by "Moskva (1)" the block of Saint Petersburg stops *)
(* before "Moskva (1)".                                                    *)
(***************************************************************************)
CountSuffix == <<" ", "(", "7", ")">>

\* "City" -> "City (7)", "City:" -> "City (7):"
CountedForm(line) ==
    LET raw == Strip(line)
        g == HeaderGroup(raw, FALSE)
    IN  RStrip(g) \o CountSuffix \o Drop(raw, Len(g))

\* "City (N)" -> "City", "City (N):" -> "City:"
PlainForm(line) ==
    LET raw == Strip(line)
        g == HeaderGroup(raw, TRUE)
    IN  RStrip(g) \o (IF Contains(Drop(raw, Len(g)), <<":">>) THEN <<":">> ELSE <<>>)

\* the lines of a block that are not headers
BlockEntries(b) ==
    LET NotHeader(l) == ~_is_city_header_line(l)
    IN  SelectSeq(StrippedNonEmpty(SplitLines(b)), NotHeader)

BlockReturned == pc = "block_done"

C7_CountedHeaderIsHeader ==
    BlockReturned =>
        LET ls == SplitLines(text)
        IN  /\ \A i \in 1..Len(ls) :
                  /\ MatchesPlainHeader(Strip(ls[i])) =>
                        BlockEntries(extract_city_block(
                            JoinLines([ls EXCEPT ![i] = CountedForm(ls[i])]), target_city))
                          = BlockEntries(block)
                  /\ (/\ MatchesCountHeader(Strip(ls[i]))
                      /\ MatchesPlainHeader(PlainForm(ls[i]))) =>
                        BlockEntries(extract_city_block(
                            JoinLines([ls EXCEPT ![i] = PlainForm(ls[i])]), target_city))
                          = BlockEntries(block)
            /\ (text = JoinLines(ScenarioCounted) /\ target_city \in AliasSpellings) =>
                  block = JoinLines(<<HdrSpbCounted, EntryUrist, LinkLine1>>)

\* a message whose Saint Petersburg section is opened and closed by plain
\* headers, and keeps its entry when both get a count
C7_Witness ==
    /\ BlockReturned
    /\ text = JoinLines(<<HdrPiter, EntryUrist, HdrMoscow>>)
    /\ target_city = DefaultTargetCity
    /\ BlockEntries(block) = <<EntryUrist>>
    /\ BlockEntries(extract_city_block(
           JoinLines(<<CountedForm(HdrPiter), EntryUrist, CountedForm(HdrMoscow)>>),
           DefaultTargetCity)) = <<EntryUrist>>

(***************************************************************************)
(* C8: extract_city_block returns the same block for every spelling of     *)
(* Saint Petersburg used as the target (each spelling returns the block    *)
(* that the target "spb" returns), and the block is not empty when the     *)
(* message has a header written with any of the aliases.                   *)
(***************************************************************************)
C8_AliasTargetsAgree ==
    (BlockReturned /\ target_city \in AliasSpellings) =>
        /\ block = extract_city_block(text, <<"s", "p", "b">>)
        /\ \A i \in 1..Len(TL) : IsSpbHeader(TL[i]) => block # <<>>

\* a message headed "SPB (2):" whose block is returned for the target "piter"
C8_Witness ==
    /\ BlockReturned
    /\ text = JoinLines(<<HdrSpbCounted, EntryUrist, LinkLine1>>)
    /\ target_city = <<"p", "i", "t", "e", "r">>
    /\ block = text

(***************************************************************************)
(* C9: an entry that is counted in detected_items is left out of           *)
(* selected_items exactly when its normalised title contains, as a         *)
(* substring, the normalised form of a banned keyword that is not blank;   *)
(* otherwise it is appended with its title and link.  With an empty        *)
(* banned list len(selected_items) = detected_items.                       *)
(***************************************************************************)
TitleIsBanned(title) ==
    \E k \in 1..Len(banned_keywords) :
        /\ _normalize_wording(banned_keywords[k]) # <<>>
        /\ Contains(CollapseSpaces(FoldYo(Lower(Strip(title)))),
                    _normalize_wording(banned_keywords[k]))

\* the link of the entry completed by the scan of line n
CompletingLink(n) ==
    IF IsNumberedLine(lines[n]) THEN LineInline(lines[n]) ELSE LinkSearch(lines[n])

C9_BannedIffSubstring ==
    /\ [](banned_keywords = <<>> => Len(selected_items) = detected_items)
    /\ [][(pc' = pc /\ detected_items' = detected_items + 1) =>
             LET title == LineTitle(lines[EntryLineAt(idx)])
             IN  IF TitleIsBanned(title)
                 THEN selected_items' = selected_items
                 ELSE selected_items' =
                        Append(selected_items,
                               [title |-> title, link |-> CompletingLink(idx)])]_vars

\* with the keywords "", " ", " VRach " and "shofYOr" one counted entry was left
\* out and another one selected
C9_Witness ==
    /\ SpbReturned
    /\ banned_keywords = BannedMixed
    /\ spb_result.detected_items > Len(spb_result.selected_items)
    /\ Len(spb_result.selected_items) >= 1

(***************************************************************************)
(* C10: in both modes an entry is counted only when a link is resolved     *)
(* for it before the next numbered line or the end of the input.  A        *)
(* numbered line without an inline link that counts changes neither        *)
(* detected_items nor selected_items and replaces the pending title; a     *)
(* line without a link changes nothing; a link line counts only with a     *)
(* pending title, only for the most recent numbered line, and only if no   *)
(* link line came since; the result returned is the counters as they are,  *)
(* whatever entry is still pending.                                        *)
(***************************************************************************)
Scanning == pc \in {"spb", "remote"} /\ idx <= Len(lines)

InlineCounts(line) ==
    LineInline(line) # <<>> /\ (pc = "remote" => LineIsRemote(line))

C10_PendingEntryDropped ==
    /\ [][(Scanning /\ pc' = pc /\ IsNumberedLine(lines[idx])
              /\ ~InlineCounts(lines[idx])) =>
             /\ UNCHANGED <<detected_items, selected_items>>
             /\ current_title' = LineTitle(lines[idx])]_vars
    /\ [][(Scanning /\ pc' = pc /\ ~IsNumberedLine(lines[idx])
              /\ (LinkSearch(lines[idx]) = <<>> \/ current_title = <<>>)) =>
             UNCHANGED <<detected_items, selected_items, current_title>>]_vars
    /\ [][(Scanning /\ pc' = pc /\ ~IsNumberedLine(lines[idx])
              /\ detected_items' # detected_items) =>
             /\ EntryLineAt(idx) # 0
             /\ current_title = LineTitle(lines[EntryLineAt(idx)])
             /\ \A k \in (EntryLineAt(idx) + 1)..(idx - 1) : ~IsLinkLine(lines[k])
             /\ current_title' = <<>>]_vars
    /\ [][(pc = "spb" /\ pc' = "spb_done") =>
             spb_result' = VacancyParseResult(selected_items, detected_items)]_vars
    /\ [][(pc = "remote" /\ pc' = "done") =>
             remote_result' = VacancyParseResult(selected_items, detected_items)]_vars

\* the section ended with an entry still pending, after an entry that was
\* replaced while pending, one that was counted, and a second link line
C10_Witness ==
    /\ SpbReturned
    /\ text = JoinLines(ScenarioPending)
    /\ inline_title_links = NoInlineLinks
    /\ current_title # <<>>
    /\ spb_result.detected_items = 1

(***************************************************************************)
(* Reading of a digest run that the properties are stated against          *)
(***************************************************************************)
\* the UIDs the loop of run_digest has been through
ProcessedUids(t) == {uids[t][i] : i \in 1..(pos[t] - 1)}

\* how many entries of a list carry the UID
TimesIn(items, uid) == Cardinality({i \in 1..Len(items) : items[i].uid = uid})

\* the groups under construction, or the groups handed to the digest builder
GroupsOf(t) ==
    IF task_pc[t] = "done" /\ digest_result[t].status \in {"ok", "build_raised"}
    THEN claim_groups[t]
    ELSE claim_map[t]

RECURSIVE TimesInGroups(_, _)
TimesInGroups(groups, uid) ==
    IF groups = <<>> THEN 0
    ELSE TimesIn(groups[1].items, uid) + TimesInGroups(Tail(groups), uid)

RunVisible(t) == task_pc[t] \in {"loop", "stats", "done"}

(***************************************************************************)
(* C11: in a digest run every fetched email is in exactly one place: the   *)
(* group keyed by the claim id of its subject, the "other" list when the   *)
(* subject has no claim id, or the failed list; no two groups have the     *)
(* same claim id; the five subjects 12345-AB, none, 67890, 12345-AB, none  *)
(* give two groups of sizes 2 and 1 and two other items.                   *)
(***************************************************************************)
C11_OnePlacePerEmail ==
    \A t \in Tasks :
        RunVisible(t) =>
            LET groups == GroupsOf(t)
            IN  /\ \A uid \in ProcessedUids(t) :
                      /\ TimesInGroups(groups, uid) + TimesIn(other_items[t], uid)
                             + TimesIn(failed[t], uid) = 1
                      /\ \A i \in 1..Len(groups) :
                             TimesIn(groups[i].items, uid) = 1 =>
                                 /\ _extract_claim(mailbox[uid]) # <<>>
                                 /\ groups[i].claim_id = _extract_claim(mailbox[uid])
                      /\ TimesIn(other_items[t], uid) = 1 => _extract_claim(mailbox[uid]) = <<>>
                /\ \A i, j \in 1..Len(groups) :
                       groups[i].claim_id = groups[j].claim_id => i = j
                /\ \A i \in 1..Len(groups) :
                       \A k \in 1..Len(groups[i].items) :
                           groups[i].items[k].uid \in ProcessedUids(t)
                /\ (/\ mailbox = ScenarioMailbox
                    /\ task_pc[t] = "done"
                    /\ digest_result[t].status \in {"ok", "build_raised"}
                    /\ failed[t] = <<>>)
                   => /\ Len(groups) = 2
                      /\ {Len(groups[i].items) : i \in 1..2} = {1, 2}
                      /\ Len(other_items[t]) = 2

C11_Witness ==
    /\ mailbox = ScenarioMailbox
    /\ task_pc["job"] = "done"
    /\ digest_result["job"].status \in {"ok", "build_raised"}
    /\ failed["job"] = <<>>
    /\ Len(claim_groups["job"]) = 2
    /\ Len(other_items["job"]) = 2

\* the run has written its counters, built its groups and called the digest
\* builder
Built(t) == task_pc[t] = "done" /\ digest_result[t].status \in {"ok", "build_raised"}

\* the largest UID among the members of a group
RankOf(g) == SetMax({g.items[k].uid : k \in 1..Len(g.items)})

(***************************************************************************)
(* C12: the claim groups handed to the digest builder are in descending    *)
(* order of rank, the rank of a group being the largest UID of its         *)
(* members.  Two groups never have the same rank, a UID being in one group *)
(* only, so the order is strict and the rule for equal ranks has no case.  *)
(***************************************************************************)
C12_GroupsByRankDescending ==
    \A t \in Tasks :
        Built(t) =>
            /\ \A i \in 1..Len(claim_groups[t]) : claim_groups[t][i].items # <<>>
            /\ \A i, j \in 1..Len(claim_groups[t]) :
                   i < j => RankOf(claim_groups[t][i]) > RankOf(claim_groups[t][j])

\* two groups whose order of first appearance is not their order of rank
C12_Witness ==
    /\ Built("job")
    /\ Len(claim_groups["job"]) = 2
    /\ claim_map["job"][1].claim_id = claim_groups["job"][2].claim_id
    /\ RankOf(claim_groups["job"][1]) > RankOf(claim_groups["job"][2])

(***************************************************************************)
(* C13: in every claim group and in the "other" list handed to the digest  *)
(* builder the items are in strictly ascending order of UID, and the       *)
(* last_uid of a group is the largest UID of its members.                  *)
(***************************************************************************)
C13_ItemsAscending ==
    \A t \in Tasks :
        Built(t) =>
            /\ \A g \in 1..Len(claim_groups[t]) :
                   LET items == claim_groups[t][g].items
                   IN  /\ \A i, j \in 1..Len(items) : i < j => items[i].uid < items[j].uid
                       /\ items # <<>>
                       /\ claim_groups[t][g].last_uid = RankOf(claim_groups[t][g])
            /\ \A i, j \in 1..Len(other_items[t]) :
                   i < j => other_items[t][i].uid < other_items[t][j].uid

\* the server listed the newest UID first; a group and the other list have
\* two members each
C13_Witness ==
    /\ Built("job")
    /\ Len(uids["job"]) = 5
    /\ uids["job"][1] = 5
    /\ uids["job"][5] = 1
    /\ Len(other_items["job"]) = 2
    /\ \E g \in 1..Len(claim_groups["job"]) : Len(claim_groups["job"][g].items) = 2

\* five digits at p, with no digit before or after them
IsolatedTokenAt(str, p) ==
    /\ p + 4 <= Len(str)
    /\ \A i \in p..(p + 4) : str[i] \in Digits
    /\ p > 1 => str[p - 1] \notin Digits
    /\ p + 5 <= Len(str) => str[p + 5] \notin Digits

\* at most n chunks, each a hyphen and one to four letters
RECURSIVE IsChunks(_, _)
IsChunks(str, n) ==
    \/ str = <<>>
    \/ /\ n > 0
       /\ str[1] = "-"
       /\ \E k \in 1..4 :
              /\ k + 1 <= Len(str)
              /\ \A i \in 2..(k + 1) : str[i] \in UpperSet \cup LowerSet
              /\ IsChunks(SubSeq(str, k + 2, Len(str)), n - 1)

\* the code points p..e of str are a token with its chunks, no digit next
IsClaimAt(str, p, e) ==
    /\ IsolatedTokenAt(str, p)
    /\ p + 4 <= e
    /\ e <= Len(str)
    /\ IsChunks(SubSeq(str, p + 5, e), 3)
    /\ e < Len(str) => str[e + 1] \notin Digits

(***************************************************************************)
(* C14: for every subject, _extract_claim returns no claim when the        *)
(* subject has no run of exactly five digits with no digit on either side; *)
(* otherwise it returns the leftmost such run with the chunks that follow  *)
(* it, at most three, each a hyphen and one to four letters, taking the    *)
(* longest such extension that no digit follows.  An email whose subject   *)
(* has no claim is never put into a claim group: it goes to "other", or    *)
(* to the failed list when its summary failed.                             *)
(***************************************************************************)
C14_LeftmostFiveDigitToken ==
    \A uid \in DOMAIN mailbox :
        LET subject == mailbox[uid]
            found == _extract_claim(subject)
            tokens == {p \in 1..Len(subject) : IsolatedTokenAt(subject, p)}
        IN  /\ tokens = {} <=> found = <<>>
            /\ tokens # {} =>
                   LET p == CHOOSE x \in tokens : \A y \in tokens : x <= y
                       e == p + Len(found) - 1
                   IN  /\ e <= Len(subject)
                       /\ found = SubSeq(subject, p, e)
                       /\ IsClaimAt(subject, p, e)
                       /\ \A e2 \in (e + 1)..Len(subject) : ~IsClaimAt(subject, p, e2)
            /\ \A t \in Tasks :
                   (RunVisible(t) /\ uid \in ProcessedUids(t) /\ tokens = {}) =>
                       /\ claim_map[t] = <<>>
                       /\ claim_groups[t] = <<>>
                       /\ TimesIn(other_items[t], uid) + TimesIn(failed[t], uid) = 1

\* four chunks follow the token: the claim id stops after the third
C14_Witness ==
    /\ Built("job")
    /\ mailbox = <<Flatten(<< <<"1", "2", "3", "4", "5">>, <<"-", "A">>, <<"-", "A">>,
                             <<"-", "A">>, <<"-", "A">> >>)>>
    /\ Len(claim_groups["job"]) = 1
    /\ claim_groups["job"][1].claim_id =
           <<"1", "2", "3", "4", "5", "-", "A", "-", "A", "-", "A">>

\* a subject with a 4-digit run only: the email is in "other"
C14_WitnessNoClaim ==
    /\ Built("job")
    /\ mailbox = <<SubjFourDigits>>
    /\ Len(other_items["job"]) = 1

\* the row holds what add_daily_stats writes: an object with a date string,
\* two integer counters and an object of integer counters by claim id
IsAccumulator(row) ==
    /\ row.kind = "json"
    /\ row.val.t = "object"
    /\ DOMAIN row.val.o = {"date", "total", "other", "claims"}
    /\ row.val.o["date"].t = "str"
    /\ row.val.o["total"].t = "int"
    /\ row.val.o["other"].t = "int"
    /\ row.val.o["claims"].t = "object"
    /\ \A c \in DOMAIN row.val.o["claims"].o : row.val.o["claims"].o[c].t = "int"

IsAccumulatorFor(row, date) == IsAccumulator(row) /\ row.val.o["date"].s = date

\* the step in which add_daily_stats of run t goes from its SELECT to its end
AddDailyStatsEnds(t) == task_pc[t] = "stats" /\ task_pc'[t] = "done"

(***************************************************************************)
(* C15: add_daily_stats called on date D over a stored accumulator: when   *)
(* the stored date is D, total, other and every claim counter named in the *)
(* deltas become the stored value plus the delta and the other claim       *)
(* counters stay; when the stored date is another one, the stored          *)
(* structure afterwards holds date D and exactly the deltas of this call,  *)
(* with none of the claim keys of the other day.                           *)
(***************************************************************************)
C15_AccumulateOrReset ==
    [][\A t \in Tasks :
          (AddDailyStatsEnds(t) /\ IsAccumulator(stats_row[t].row)) =>
              LET old == stats_row[t].row.val.o
                  D == stats_row[t].date_key
                  same == old["date"].s = D
                  kept == IF same THEN old["claims"].o ELSE EmptyDict
                  base(j) == IF same THEN j.n ELSE 0
              IN  /\ digest_result'[t].status # "raised"
                  /\ IsAccumulatorFor(kv_daily_stats', D)
                  /\ kv_daily_stats'.val.o["total"].n = base(old["total"]) + Len(uids[t])
                  /\ kv_daily_stats'.val.o["other"].n = base(old["other"]) + other_delta[t]
                  /\ DOMAIN kv_daily_stats'.val.o["claims"].o =
                         (DOMAIN kept) \cup (DOMAIN claim_deltas[t])
                  /\ \A c \in DOMAIN kv_daily_stats'.val.o["claims"].o :
                         kv_daily_stats'.val.o["claims"].o[c].n =
                             (IF c \in DOMAIN kept THEN kept[c].n ELSE 0)
                                 + (IF c \in DOMAIN claim_deltas[t] THEN claim_deltas[t][c] ELSE 0)
      ]_vars

\* a run that read the accumulator of the day before with a claim counter,
\* and wrote one for the new day that holds only its own claim
C15_Witness ==
    /\ Built("job")
    /\ IsAccumulatorFor(stats_row["job"].row, Day1)
    /\ stats_row["job"].date_key = Day2
    /\ DOMAIN stats_row["job"].row.val.o["claims"].o = {_extract_claim(Subj67890)}
    /\ IsAccumulatorFor(kv_daily_stats, Day2)
    /\ DOMAIN kv_daily_stats.val.o["claims"].o = {_extract_claim(SubjAB)}
    /\ kv_daily_stats.val.o["total"].n = 2

\* a run that added to the accumulator of the same day: one claim counter
\* grew, the other one stayed
C15_WitnessSameDay ==
    /\ Built("job")
    /\ IsAccumulatorFor(stats_row["job"].row, Day1)
    /\ stats_row["job"].date_key = Day1
    /\ stats_row["job"].row.val.o["total"].n = 3
    /\ DOMAIN claim_deltas["job"] = {_extract_claim(SubjAB)}
    /\ kv_daily_stats.val.o["total"].n = 5
    /\ kv_daily_stats.val.o["claims"].o[_extract_claim(SubjAB)].n = 3
    /\ kv_daily_stats.val.o["claims"].o[_extract_claim(Subj67890)].n = 2

(***************************************************************************)
(* C16: whatever text the daily_stats row holds, get_today_daily_stats     *)
(* returns without raising, and returns the all-zero structure of the      *)
(* current date when the row is not an accumulator of that date;           *)
(* add_daily_stats does not raise either, and over a row that is not an    *)
(* accumulator of the current date it writes the zero structure of the     *)
(* date plus the deltas of the call.                                       *)
(***************************************************************************)
C16_ToleratesCorruptedStats ==
    /\ daily_view.called =>
           /\ ~daily_view.raised
           /\ ~IsAccumulatorFor(daily_view.row, daily_view.date_key) =>
                  daily_view.value = ZeroToday(daily_view.date_key)
    /\ \A t \in Tasks :
           (task_pc[t] = "done" /\ digest_result[t].status \in {"ok", "build_raised", "raised"}) =>
               /\ digest_result[t].status # "raised"
               /\ ~IsAccumulatorFor(stats_row[t].row, stats_row[t].date_key) =>
                      kv_daily_stats =
                          add_daily_stats(NoRow, stats_row[t].date_key, Len(uids[t]),
                                          other_delta[t], claim_deltas[t]).row

\* the reading of a row whose total is not a number raised
C16_ReadRaised ==
    /\ daily_view.called
    /\ daily_view.raised
    /\ daily_view.row.kind = "json"
    /\ daily_view.row.val.o["date"] = JStr(daily_view.date_key)
    /\ daily_view.row.val.o["total"].t = "str"

\* the coroutines that are inside run_digest
Inside == {t \in Tasks : task_pc[t] \in {"call", "loop", "stats"}}

\* the accumulator that holds the sums of the deltas of all the calls
SumOfDeltas ==
    JsonRow(JObj([k \in {"date", "total", "other", "claims"} |->
        IF k = "date" THEN JStr(today)
        ELSE IF k = "total" THEN JInt(delta_log.total)
        ELSE IF k = "other" THEN JInt(delta_log.other)
        ELSE JObj([c \in DOMAIN delta_log.claims |-> JInt(delta_log.claims[c])])]))

(***************************************************************************)
(* C17: the digest runs of the scheduled job and of /digest_now never      *)
(* overlap: at most one of them is between its read of last_uid and its    *)
(* write of daily_stats; whenever none is, the stored counters are the     *)
(* sums of the deltas of all the runs so far, and every message up to the  *)
(* stored last_uid has been counted once.                                  *)
(***************************************************************************)
C17_RunsNeverInterleave ==
    /\ Cardinality(Inside) <= 1
    /\ Inside = {} =>
           /\ kv_daily_stats = IF delta_log.total = 0 THEN NoRow ELSE SumOfDeltas
           /\ delta_log.total = kv_last_uid

\* both coroutines have run a digest over mail of their own
C17_Witness ==
    /\ Built("job")
    /\ Built("cmd")
    /\ uids["job"] # <<>>
    /\ uids["cmd"] # <<>>
    /\ kv_last_uid = 2
    /\ kv_daily_stats = SumOfDeltas

\* /digest_now is waiting for the event loop while the job is inside run_digest
C17_WitnessWaiting ==
    /\ task_pc["cmd"] = "replying"
    /\ task_pc["job"] = "stats"

(***************************************************************************)
(* Reading of a message and its spans that the properties are stated       *)
(* against: the UTF-16 form of the text, written unit by unit              *)
(***************************************************************************)
\* for every UTF-16 unit of the text, the index of the code point it is of
RECURSIVE UnitsFrom(_, _)
UnitsFrom(str, i) ==
    IF i > Len(str) THEN <<>>
    ELSE (IF str[i] = "FIRE" THEN <<i, i>> ELSE <<i>>) \o UnitsFrom(str, i + 1)

\* the span has its attributes, a vacancy link and a positive length, and
\* its first and last unit are the first and last unit of code points
GoodSpan(str, e) ==
    /\ DOMAIN e = {"url", "offset", "length"}
    /\ LinkSearch(e["url"]) # <<>>
    /\ e["offset"] >= 0
    /\ e["length"] > 0
    /\ LET u == UnitsFrom(str, 1)
           first == e["offset"] + 1
           last == e["offset"] + e["length"]
       IN  /\ last <= Len(u)
           /\ first > 1 => u[first - 1] # u[first]
           /\ last < Len(u) => u[last] # u[last + 1]

\* the code points the units of a good span are of
Covered(str, e) ==
    LET u == UnitsFrom(str, 1)
    IN  SubSeq(str, u[e["offset"] + 1], u[e["offset"] + e["length"]])

SpanKey(str, e) == _normalize_wording(Covered(str, e))

\* no later span of the message has the same key
LastOfKey(i) ==
    \A j \in (i + 1)..Len(entities) :
        GoodSpan(text, entities[j]) => SpanKey(text, entities[j]) # SpanKey(text, entities[i])

\* a good span after a pictograph at the start of the text is cut as it is
\* from the text without the pictograph, two units earlier
SameWithoutPictograph ==
    \A i \in 1..Len(entities) :
        (/\ text # <<>>
         /\ text[1] = "FIRE"
         /\ GoodSpan(text, entities[i])
         /\ entities[i]["offset"] >= 2) =>
            _utf16_slice(text, entities[i]["offset"], entities[i]["length"]) =
                _utf16_slice(Tail(text), entities[i]["offset"] - 2, entities[i]["length"])

\* the statement of C18 as it was made: every span on code point boundaries
\* has its link in the map under the normalized covered text
C18_Original ==
    pc # "message" =>
        /\ \A i \in 1..Len(entities) :
               GoodSpan(text, entities[i]) =>
                   /\ SpanKey(text, entities[i]) \in DOMAIN inline_title_links
                   /\ LastOfKey(i) =>
                          inline_title_links[SpanKey(text, entities[i])] = entities[i]["url"]
        /\ SameWithoutPictograph

(***************************************************************************)
(* C18: for every text and every span with a vacancy link whose UTF-16     *)
(* offset and offset+length fall on code point boundaries and which covers *)
(* more than whitespace, extract_inline_hh_links_from_entities keys the    *)
(* link of the span by the normalized form of exactly the code points      *)
(* those units cover, a code point above U+FFFF counting as two units and  *)
(* any other as one; a span after a leading pictograph resolves to the     *)
(* same text as without the pictograph.                                    *)
(***************************************************************************)
C18_Utf16SpanKeysLink ==
    pc # "message" =>
        /\ \A i \in 1..Len(entities) :
               (GoodSpan(text, entities[i]) /\ Strip(Covered(text, entities[i])) # <<>>) =>
                   /\ SpanKey(text, entities[i]) \in DOMAIN inline_title_links
                   /\ LastOfKey(i) =>
                          inline_title_links[SpanKey(text, entities[i])] = entities[i]["url"]
        /\ SameWithoutPictograph

\* the title after the pictograph, at UTF-16 offset 6, is keyed
C18_Witness ==
    /\ pc # "message"
    /\ text = <<"FIRE", " ", "1", ".", " ", "U", "r", "i", "s", "t">>
    /\ entities = <<Entity(Url9, 6, 5)>>
    /\ inline_title_links = [k \in {<<"u", "r", "i", "s", "t">>} |-> Url9]

\* the spans that are not bad, in their order
RECURSIVE GoodSpans(_, _)
GoodSpans(str, spans) ==
    IF spans = <<>> THEN <<>>
    ELSE IF GoodSpan(str, spans[1])
         THEN <<spans[1]>> \o GoodSpans(str, Tail(spans))
         ELSE GoodSpans(str, Tail(spans))

ListingWithLink == JoinLines(<<HdrSpb, EntryUrist, LinkLine1>>)

(***************************************************************************)
(* C19: a bad span (offset or end not on a code point boundary or beyond   *)
(* the text, no positive length, a negative or absent offset, a link that  *)
(* is no vacancy) does not end extract_inline_hh_links_from_entities: the  *)
(* map returned is the map of the other spans alone; and the entry whose   *)
(* title got no link from the spans is completed by the link line that     *)
(* follows it.                                                             *)
(***************************************************************************)
C19_BadSpanIsSkipped ==
    pc # "message" =>
        /\ inline_title_links =
               extract_inline_hh_links_from_entities(text, GoodSpans(text, entities))
        /\ DOMAIN inline_title_links =
               {SpanKey(text, entities[i]) :
                    i \in {j \in 1..Len(entities) : GoodSpan(text, entities[j])}} \ {<<>>}
        /\ (pc = "spb_done" /\ text = ListingWithLink) =>
               /\ Len(spb_result.selected_items) = 1
               /\ spb_result.selected_items[1].link =
                      IF <<"u", "r", "i", "s", "t">> \in DOMAIN inline_title_links
                      THEN inline_title_links[<<"u", "r", "i", "s", "t">>]
                      ELSE Url1

\* a span that ends beyond the text, then the span of the title: the map
\* holds the title, and the entry has the link of the span
C19_Witness ==
    /\ pc = "spb_done"
    /\ text = ListingWithLink
    /\ entities = <<Entity(Url9, 3, 100), Entity(Url9, Len(HdrSpb) + 4, 5)>>
    /\ DOMAIN inline_title_links = {<<"u", "r", "i", "s", "t">>}
    /\ spb_result.selected_items[1].link = Url9

\* the only span of the title has a link that is no vacancy: the entry is
\* completed by the link line
C19_WitnessLinkLine ==
    /\ pc = "spb_done"
    /\ text = ListingWithLink
    /\ Len(entities) = 1
    /\ entities[1]["offset"] = Len(HdrSpb) + 4
    /\ LinkSearch(entities[1]["url"]) = <<>>
    /\ inline_title_links = EmptyDict
    /\ spb_result.selected_items[1].link = Url1

\* the number the claim names for the value of the environment variable:
\* the value when it is a positive integer, 80 otherwise
EffectiveLimit(env) ==
    LET r == IF env.set THEN IntOf(JStr(env.text)) ELSE [ok |-> FALSE, v |-> 0]
    IN  IF r.ok /\ r.v > 0 THEN r.v ELSE 80

(***************************************************************************)
(* C20: the number of messages asked of a Telegram source is the           *)
(* configured value when that is a positive integer and 80 when it is      *)
(* zero, negative, no number or not set, so get_messages is always given a *)
(* positive number.                                                        *)
(***************************************************************************)
C20_FetchLimitIsPositive ==
    /\ fetch_pc # "failed"
    /\ fetch_pc = "fetched" =>
           /\ fetch_limit > 0
           /\ fetch_limit = EffectiveLimit(fetch_env)

\* the numbered lines among the first n lines the loop has scanned
NumberedScanned(n) == Cardinality({k \in 1..n : k <= Len(lines) /\ IsNumberedLine(lines[k])})

\* a link line after the numbered line e, before the next numbered line,
\* is being scanned
LinkLineOfEntry(e) ==
    /\ e # 0
    /\ IsLinkLine(lines[idx])
    /\ EntryLineAt(idx) = e

\* the statement of C21 as it was made: in both parsers a numbered line
\* whose title is in the map clears the pending title
C21_Original ==
    /\ [][(Scanning /\ pc' = pc /\ IsNumberedLine(lines[idx])
              /\ LineInline(lines[idx]) # <<>>) =>
             /\ current_title' = <<>>
             /\ detected_items' \in {detected_items, detected_items + 1}
             /\ Len(selected_items') \in {Len(selected_items), Len(selected_items) + 1}]_vars
    /\ [][(Scanning /\ pc' = pc /\ LinkLineOfEntry(EntryLineAt(idx))
              /\ LineInline(lines[EntryLineAt(idx)]) # <<>>) =>
             UNCHANGED <<detected_items, selected_items>>]_vars
    /\ [](pc \in {"spb", "remote"} => detected_items <= NumberedScanned(idx - 1))

(***************************************************************************)
(* C21: a numbered line whose normalized title is in the title-to-link map *)
(* adds at most one to detected_items and at most one item to              *)
(* selected_items, and a link line that follows it before the next         *)
(* numbered line adds nothing; the entry is completed on the numbered line *)
(* and the pending title cleared in parse_spb_vacancies always, in         *)
(* parse_remote_vacancies when the line holds a remote-work keyword        *)
(* (otherwise the title stays pending, and no link line counts it);        *)
(* detected_items never exceeds the number of numbered lines scanned.      *)
(***************************************************************************)
C21_InlineCompletesOnce ==
    /\ [][(Scanning /\ pc' = pc /\ IsNumberedLine(lines[idx])
              /\ LineInline(lines[idx]) # <<>>) =>
             /\ InlineCounts(lines[idx]) => current_title' = <<>>
             /\ ~InlineCounts(lines[idx]) =>
                    /\ current_title' = LineTitle(lines[idx])
                    /\ UNCHANGED <<detected_items, selected_items>>
             /\ detected_items' \in {detected_items, detected_items + 1}
             /\ Len(selected_items') \in {Len(selected_items), Len(selected_items) + 1}]_vars
    /\ [][(Scanning /\ pc' = pc /\ LinkLineOfEntry(EntryLineAt(idx))
              /\ LineInline(lines[EntryLineAt(idx)]) # <<>>) =>
             UNCHANGED <<detected_items, selected_items>>]_vars
    /\ [](pc \in {"spb", "remote"} => detected_items <= NumberedScanned(idx - 1))

\* the entry got its link from the map; the link line after it is being
\* scanned with no title pending and the entry counted once
C21_Witness ==
    /\ pc = "spb"
    /\ Len(lines) = 3
    /\ idx = 3
    /\ IsNumberedLine(lines[2])
    /\ LineInline(lines[2]) # <<>>
    /\ IsLinkLine(lines[3])
    /\ current_title = <<>>
    /\ detected_items = 1
    /\ Len(selected_items) = 1

\* the title is in the map but the line has no remote-work keyword: the
\* whole-message parse keeps the title pending
C21_WitnessStaysPending ==
    /\ pc = "remote"
    /\ idx > 1
    /\ idx <= Len(lines)
    /\ IsNumberedLine(lines[idx - 1])
    /\ LineInline(lines[idx - 1]) # <<>>
    /\ IsLinkLine(lines[idx])
    /\ current_title # <<>>
    /\ detected_items = 0

\* a line that is not empty, not numbered, without a vacancy link
IsIgnoredLine(line) == line # <<>> /\ ~IsNumberedLine(line) /\ LinkSearch(line) = <<>>

\* the lines of the message without the ignored lines that are no headers
RECURSIVE WithoutIgnored(_)
WithoutIgnored(tl) ==
    IF tl = <<>> THEN <<>>
    ELSE IF IsIgnoredLine(tl[1]) /\ ~_is_city_header_line(tl[1])
         THEN WithoutIgnored(Tail(tl))
         ELSE <<tl[1]>> \o WithoutIgnored(Tail(tl))

(***************************************************************************)
(* C22: in parse_spb_vacancies and parse_remote_vacancies the scan of a    *)
(* non-empty line that is not numbered and holds no vacancy link leaves    *)
(* the pending title, the remote flag, detected_items and selected_items   *)
(* as they were; the result of either parse is the result for the message  *)
(* without such lines (headers kept, as they bound the section).           *)
(***************************************************************************)
C22_OtherLinesIgnored ==
    /\ [][(Scanning /\ pc' = pc /\ IsIgnoredLine(lines[idx])) =>
             UNCHANGED <<current_title, current_is_remote, detected_items,
                         selected_items>>]_vars
    /\ [](SpbReturned =>
             LET k == WithoutIgnored(TL)
             IN  /\ spb_result.detected_items = Cardinality(SpbEntries(k))
                 /\ spb_result.selected_items = ItemsFrom(k, Len(k), SpbEntries(k), TRUE, TRUE))
    /\ [](RemoteReturned =>
             LET k == WithoutIgnored(TL)
             IN  /\ remote_result.detected_items = Cardinality(RemoteEntries(k))
                 /\ remote_result.selected_items =
                        ItemsFrom(k, Len(k), RemoteEntries(k), FALSE, TRUE))

\* a salary line stood between the numbered line and its link line, and
\* the entry was counted
C22_Witness ==
    /\ pc = "spb"
    /\ idx = 6
    /\ IsNumberedLine(lines[3])
    /\ LineInline(lines[3]) = <<>>
    /\ lines[4] = SalaryLine
    /\ IsLinkLine(lines[5])
    /\ current_title = <<>>
    /\ detected_items = 1

\* the header lines of the target, and the first of them
TargetHeaders(tl, target) == {i \in 1..Len(tl) : IsHeaderFor(tl[i], target)}

FirstTargetHeader(tl, target) ==
    CHOOSE i \in TargetHeaders(tl, target) : \A h \in TargetHeaders(tl, target) : i <= h

\* the header lines of other cities after line s
ForeignHeadersAfter(tl, s, target) ==
    {j \in (s + 1)..Len(tl) : _is_city_header_line(tl[j]) /\ ~IsHeaderFor(tl[j], target)}

(***************************************************************************)
(* C23: the block of extract_city_block starts at the first header line of *)
(* the target or one of its aliases and ends just before the first later   *)
(* header line of another city; a later header of the target or an alias   *)
(* and a blank line do not end it, and with no header of another city      *)
(* after the start the block runs to the last line of the input.           *)
(***************************************************************************)
C23_BlockBounds ==
    BlockReturned =>
        LET tl == TL
            raw == SplitLines(text)
        IN  IF TargetHeaders(tl, target_city) = {}
            THEN block = <<>>
            ELSE LET s == FirstTargetHeader(tl, target_city)
                     F == ForeignHeadersAfter(tl, s, target_city)
                     e == IF F = {} THEN Len(tl) + 1
                          ELSE CHOOSE j \in F : \A h \in F : j <= h
                 IN  block = Strip(JoinLines(SubSeq(raw, s, e - 1)))

\* "Pityor" opened the block, the header of Saint Petersburg with a count
\* did not end it, "Moskva" did
C23_Witness ==
    /\ BlockReturned
    /\ text = JoinLines(<<HdrPiter, HdrSpbCounted, HdrMoscow>>)
    /\ target_city = DefaultTargetCity
    /\ block = JoinLines(<<HdrPiter, HdrSpbCounted>>)

\* a blank line lies inside the block, which runs to the end of the input
C23_WitnessToEnd ==
    /\ BlockReturned
    /\ text = JoinLines(<<HdrPiter, BlankLine, EntryUrist>>)
    /\ block = text
\* the sum of the counters of a dictionary
RECURSIVE DictSum(_)
DictSum(d) ==
    IF DOMAIN d = {}
    THEN 0
    ELSE LET k == CHOOSE c \in DOMAIN d : TRUE
         IN  d[k] + DictSum([c \in (DOMAIN d) \ {k} |-> d[c]])

\* the turn of the loop in which summarize_email raised
SummarizeRaises(t) == task_pc[t] = "loop" /\ Len(failed'[t]) = Len(failed[t]) + 1

\* the step in which run t leaves its loop and calls set_last_uid
SetLastUidStep(t) == task_pc[t] = "loop" /\ task_pc'[t] = "stats"

\* the step in which the search of run t returns its UIDs
SearchReturns(t) ==
    /\ task_pc[t] = "call"
    /\ task_pc'[t] \in {"loop", "done"}
    /\ digest_result'[t].status \in {"none", "empty"}

\* the total of the stored accumulator when its date is the given one, else 0
StoredTotal(row, date) == IF IsAccumulatorFor(row, date) THEN row.val.o["total"].n ELSE 0

C24_WitnessLaterRun ==
    /\ run_log.failed = {<<Validity1, 1>>}
    /\ task_pc["job"] = "loop"
    /\ uids["job"] = <<2>>
\* the sum of the claim counters of a stored accumulator
StoredClaimSum(row) ==
    DictSum([c \in DOMAIN row.val.o["claims"].o |-> row.val.o["claims"].o[c].n])

SummarizeStep(t) == task_pc[t] = "loop" /\ pos'[t] = pos[t] + 1

\* the email of the turn, in the UID space of the selected folder
EmailOfTurn(t) == <<kv_uidvalidity, uids[t][pos[t]]>>

C26_WitnessRepeated ==
    /\ run_log.aborted = {<<Validity1, 1>>}
    /\ run_log.summarized = {<<Validity1, 1>>, <<Validity1, 2>>}
    /\ uids["job"] = <<1, 2>>
    /\ kv_last_uid = 2
\* the UIDs of run t
UidsOf(t) == {uids[t][i] : i \in 1..Len(uids[t])}

(***************************************************************************)
(* C27: no email is skipped: when a run stores its cursor, every UID of    *)
(* the folder above the cursor the run started from is a UID of the run or *)
(* is above the cursor that the run stores.                                *)
(***************************************************************************)
C27_NoEmailSkipped ==
    [][\A t \in Tasks :
          SetLastUidStep(t) =>
              \A u \in DOMAIN mailbox :
                  u > last_uid[t] => (u \in UidsOf(t) \/ u > kv_last_uid')]_vars
(***************************************************************************)
(* C28: once a run has met a UIDVALIDITY of the folder that differs from   *)
(* the stored one and has ended, the stored last_uid is 0 or the UID of an *)
(* email that a run handed to summarize_email under the stored             *)
(* UIDVALIDITY; this holds also when the run finds no emails.              *)
(***************************************************************************)
C28_CursorOfStoredUidvalidity ==
    (task_pc["job"] = "done" /\ kv_uidvalidity = Validity2) =>
        \/ kv_last_uid = 0
        \/ <<kv_uidvalidity, kv_last_uid>> \in run_log.summarized
\* the step in which run_digest of run t is left by an exception
RunRaises(t) ==
    /\ task_pc[t] \in {"call", "loop", "stats"}
    /\ task_pc'[t] = "done"
    /\ digest_result'[t].status \in {"mailbox_raised", "raised", "build_raised"}

(***************************************************************************)
(* C29: when run_digest is left by an exception, of the mailbox, of the    *)
(* parsing of an email, of add_daily_stats or of build_digest, the stored  *)
(* last_uid and daily_stats are what they were when the run started: an    *)
(* exception before the loop or inside it has stored neither, and after    *)
(* the loop last_uid is the cursor the run started from and daily_stats    *)
(* the row that add_daily_stats read.                                      *)
(***************************************************************************)
C29_RaisingRunStoresNothing ==
    [][\A t \in Tasks :
          RunRaises(t) =>
              /\ task_pc[t] \in {"call", "loop"} =>
                     kv_last_uid' = kv_last_uid /\ kv_daily_stats' = kv_daily_stats
              /\ task_pc[t] \in {"loop", "stats"} =>
                     kv_last_uid' = last_uid[t]
              /\ task_pc[t] = "stats" =>
                     kv_daily_stats' = stats_row[t].row]_vars
\* the stored flag is "1"
FlagSet == kv_paused = <<"1">>

\* the scheduled job is not inside a trigger
JobAtRest == task_pc["job"] \in {"idle", "done"}

\* the step of a scheduled trigger
TriggerStep ==
    /\ JobAtRest
    /\ <<task_pc["job"], digest_result["job"], owner_messages>>' #
           <<task_pc["job"], digest_result["job"], owner_messages>>

(***************************************************************************)
(* C30: a scheduled trigger that finds the flag set starts no run, leaves  *)
(* last_uid, uidvalidity, daily_stats and the flag as they are and calls   *)
(* send_to_owner not once; as long as the flag is set the three stored     *)
(* values stay.  A step of /pause or /resume changes the flag and nothing  *)
(* else.  A trigger that finds the flag not set calls run_digest, which    *)
(* searches from the stored last_uid.                                      *)
(***************************************************************************)
C30_PausedTriggerDoesNothing ==
    /\ [][(TriggerStep /\ FlagSet) =>
             /\ task_pc'["job"] = "done"
             /\ digest_result'["job"].status = "skipped"
             /\ owner_messages' = 0
             /\ UNCHANGED <<store_vars, last_uid, uids, pos, max_uid_processed, claim_map,
                            other_items, failed, claim_deltas, other_delta, stats_row,
                            claim_groups, run_log>>]_vars
    /\ [][(JobAtRest /\ FlagSet) =>
             /\ task_pc'["job"] \in {"idle", "done"}
             /\ UNCHANGED <<kv_last_uid, kv_uidvalidity, kv_daily_stats>>]_vars
    /\ [][kv_paused' # kv_paused =>
             /\ kv_paused' \in {set_paused(TRUE), set_paused(FALSE)}
             /\ UNCHANGED <<today, kv_last_uid, kv_uidvalidity, kv_daily_stats, mailbox,
                            folder_uidvalidity, run_vars, service_vars>>]_vars
    /\ [][(TriggerStep /\ ~FlagSet) => task_pc'["job"] = "call"]_vars
    /\ [][SearchReturns("job") => last_uid'["job"] = kv_last_uid]_vars

\* the trigger found the flag set while the second email was waiting: no
\* run, no message, the cursor still at the first email
C30_Witness ==
    /\ FlagSet
    /\ task_pc["job"] = "done"
    /\ digest_result["job"].status = "skipped"
    /\ owner_messages = 0
    /\ kv_last_uid = 1
    /\ Len(mailbox) = 2

\* after /resume the run started from the cursor left before the pause
C30_WitnessResumed ==
    /\ kv_paused = set_paused(FALSE)
    /\ task_pc["job"] = "loop"
    /\ last_uid["job"] = 1
    /\ uids["job"] = <<2>>
====
